---- MODULE Spec2Model ----
(***************************************************************************)
(* State-machine model of noxcollections: the singly linked LinkedList     *)
(* (lists.py) and the BinaryReferenceTree / BstReferenceTree sets          *)
(* (tree.py).  Objects live in heaps of cells addressed by small integers; *)
(* address 0 is Python's None.  Every operation is one atomic action (the  *)
(* library is single-threaded and synchronous).                            *)
(***************************************************************************)
EXTENDS Integers, Sequences, FiniteSets, TLC

VARIABLES head, cells, other, last, ref, reflast, root, tnodes, kind, tlast,
          seq, slast

listVars == <<head, cells, other, last>>
refVars == <<ref, reflast>>
treeVars == <<root, tnodes, kind, tlast>>
sortVars == <<seq, slast>>
vars == <<head, cells, other, last, ref, reflast, root, tnodes, kind, tlast,
          seq, slast>>

(***************************************************************************)
(* Bounds of the model.                                                    *)
(***************************************************************************)
\* longest linked list explored
MaxLen == 3
\* element values are 1..MaxVal
MaxVal == 2

Values == 1..MaxVal
\* integer indexes tried: every valid one and two invalid ones on each side
Indexes == (0 - (MaxLen + 2))..(MaxLen + 2)
\* the list under test and one slice result, plus one cell being inserted
NumCells == 2 * MaxLen + 1
Addr == 1..NumCells

RECURSIVE SeqsUpTo(_, _)
SeqsUpTo(S, n) ==
  IF n = 0 THEN {<<>>}
  ELSE LET shorter == SeqsUpTo(S, n - 1)
       IN shorter \cup {Append(s, x) : s \in {t \in shorter : Len(t) = n - 1}, x \in S}

Abs(i) == IF i < 0 THEN 0 - i ELSE i

(***************************************************************************)
(* Results of calls: err is "ok" or the name of the exception raised.      *)
(***************************************************************************)
Ok(v) == [err |-> "ok", val |-> v]
Raise(e) == [err |-> e, val |-> 0]

(***************************************************************************)
(* lists.py: helpers                                                       *)
(***************************************************************************)
\* _nth with the fault of yielding the last element for an index past the end
NthSaturating(index, s) ==
  IF index < 0 THEN Raise("ValueError")
  ELSE IF s = <<>> THEN Raise("IndexError")
  ELSE IF index >= Len(s) THEN Ok(s[Len(s)])
  ELSE Ok(s[index + 1])

\* _nth: next(islice(iterable, index, None)); islice rejects a negative
\* index with ValueError, an exhausted iterator becomes IndexError.
Nth(index, s) ==
  IF index < 0 THEN Raise("ValueError")
  ELSE IF index >= Len(s) THEN Raise("IndexError")
  ELSE Ok(s[index + 1])

\* _normalize_index with the fault of taking a negative index below -length
\* for the first position
NormalizeIndexClamped(index, length) ==
  LET translated_index == IF index >= 0 THEN index
                          ELSE IF length - Abs(index) < 0 THEN 0
                          ELSE length - Abs(index)
  IN IF translated_index < 0 \/ translated_index >= length
       THEN Raise("IndexError")
       ELSE Ok(translated_index)

\* _normalize_index with the faults the properties below must tell from it:
\* index = length admitted; a negative index translated one too low
NormalizeIndexInclusive(index, length) ==
  LET translated_index == IF index >= 0 THEN index ELSE length - Abs(index)
  IN IF translated_index < 0 \/ translated_index > length
       THEN Raise("IndexError")
       ELSE Ok(translated_index)

NormalizeIndexNegOff(index, length) ==
  LET translated_index == IF index >= 0 THEN index ELSE length - Abs(index) - 1
  IN IF translated_index < 0 \/ translated_index >= length
       THEN Raise("IndexError")
       ELSE Ok(translated_index)

\* _normalize_index
NormalizeIndex(index, length) ==
  LET translated_index == IF index >= 0 THEN index ELSE length - Abs(index)
  IN IF translated_index < 0 \/ translated_index >= length
       THEN Raise("IndexError")
       ELSE Ok(translated_index)

(***************************************************************************)
(* lists.py: the node heap.  A free cell holds value 0.                    *)
(***************************************************************************)
NoCell == [value |-> 0, next |-> 0]
EmptyHeap == [a \in Addr |-> NoCell]

\* _LinkedListNode(value=..., next=...): a fresh object
NewNode(cs) == CHOOSE a \in Addr : cs[a].value = 0 /\ \A b \in Addr : cs[b].value = 0 => a <= b

\* LinkedList._iter_nodes: the nodes from the head on, following next
RECURSIVE IterFrom(_, _, _)
IterFrom(cs, current, seen) ==
  IF current = 0 \/ current \in seen THEN <<>>
  ELSE <<current>> \o IterFrom(cs, cs[current].next, seen \cup {current})

IterNodes(cs, h) == IterFrom(cs, h, {})

\* _LinkedListAbstractBase.__iter__
Iter(cs, h) == LET ns == IterNodes(cs, h) IN [k \in 1..Len(ns) |-> cs[ns[k]].value]

\* _LinkedListAbstractBase.__len__
Length(cs, h) == Len(IterNodes(cs, h))

(***************************************************************************)
(* Object identity is opaque in Python, so a heap is kept up to renaming   *)
(* of addresses: after each call the cells reachable from the list under   *)
(* test, then those reachable only from the slice result, are named 1, 2,  *)
(* ... in order of traversal and unreachable cells are reclaimed.          *)
(***************************************************************************)
Position(s, a) == CHOOSE k \in 1..Len(s) : s[k] = a

Compact(cs, h, o) ==
  LET mine == IterNodes(cs, h)
      live == mine \o IterFrom(cs, o, {mine[k] : k \in 1..Len(mine)})
      Name(a) == IF a = 0 THEN 0 ELSE Position(live, a)
  IN [head |-> Name(h),
      other |-> Name(o),
      cells |-> [a \in Addr |->
                   IF a <= Len(live)
                     THEN [value |-> cs[live[a]].value, next |-> Name(cs[live[a]].next)]
                     ELSE NoCell]]

\* The outcome of a call on the list: the exception (or "ok"), the head and the
\* heap it leaves, and what it returns (<<>> for None, <<v>> for a value).
Res(e, h, cs, r) == [err |-> e, head |-> h, cells |-> cs, ret |-> r]

(***************************************************************************)
(* lists.py: _LinkedListAbstractBase and LinkedList                        *)
(***************************************************************************)
\* _LinkedListAbstractBase._get_by_index
GetByIndex(cs, h, index) ==
  LET n == NormalizeIndex(index, Length(cs, h))
  IN IF n.err # "ok" THEN Res(n.err, h, cs, <<>>)
     ELSE LET v == Nth(n.val, Iter(cs, h))
          IN IF v.err # "ok" THEN Res(v.err, h, cs, <<>>)
             ELSE Res("ok", h, cs, <<v.val>>)

\* _LinkedListAbstractBase._set_by_index
SetByIndex(cs, h, index, value) ==
  LET n == NormalizeIndex(index, Length(cs, h))
  IN IF n.err # "ok" THEN Res(n.err, h, cs, <<>>)
     ELSE LET nth_node == Nth(n.val, IterNodes(cs, h))
          IN IF nth_node.err # "ok" THEN Res(nth_node.err, h, cs, <<>>)
             ELSE Res("ok", h, [cs EXCEPT ![nth_node.val].value = value], <<>>)

\* LinkedList._delete_first
DeleteFirst(cs, h) == IF h # 0 THEN cs[h].next ELSE h

\* LinkedList._del_by_index
DelByIndex(cs, h, key) ==
  LET n == NormalizeIndex(key, Length(cs, h))
  IN IF n.err # "ok" THEN Res(n.err, h, cs, <<>>)
     ELSE IF n.val = 0 THEN Res("ok", DeleteFirst(cs, h), cs, <<>>)
     ELSE LET prev_node == Nth(n.val - 1, IterNodes(cs, h))
          IN IF prev_node.err # "ok" THEN Res(prev_node.err, h, cs, <<>>)
             ELSE LET to_remove == cs[prev_node.val].next
                  IN Res("ok", h,
                         [cs EXCEPT ![prev_node.val].next =
                            IF to_remove # 0 THEN cs[to_remove].next ELSE 0],
                         <<>>)

\* LinkedList._insert_first
InsertFirst(cs, h, obj) ==
  LET new_node == NewNode(cs)
  IN Res("ok", new_node, [cs EXCEPT ![new_node] = [value |-> obj, next |-> h]], <<>>)

\* insert with the fault of creating the new node without a next node
InsertDropsTail(cs, h, index, obj) ==
  IF index = 0 THEN InsertFirst(cs, h, obj)
  ELSE LET before_inserted == Nth(index - 1, IterNodes(cs, h))
       IN IF before_inserted.err # "ok" THEN Res(before_inserted.err, h, cs, <<>>)
          ELSE LET to_insert == NewNode(cs)
               IN Res("ok", h,
                      [cs EXCEPT ![to_insert] = [value |-> obj, next |-> 0],
                                 ![before_inserted.val].next = to_insert],
                      <<>>)

\* insert with the fault of looking up the node at index instead of the one
\* before it
InsertAtIndex(cs, h, index, obj) ==
  IF index = 0 THEN InsertFirst(cs, h, obj)
  ELSE LET before_inserted == Nth(index, IterNodes(cs, h))
       IN IF before_inserted.err # "ok" THEN Res(before_inserted.err, h, cs, <<>>)
          ELSE LET to_insert == NewNode(cs)
               IN Res("ok", h,
                      [cs EXCEPT ![to_insert] =
                                   [value |-> obj, next |-> cs[before_inserted.val].next],
                                 ![before_inserted.val].next = to_insert],
                      <<>>)

\* insert with the fault of pointing the new node back at the node before it
InsertLinksBack(cs, h, index, obj) ==
  IF index = 0 THEN InsertFirst(cs, h, obj)
  ELSE LET before_inserted == Nth(index - 1, IterNodes(cs, h))
       IN IF before_inserted.err # "ok" THEN Res(before_inserted.err, h, cs, <<>>)
          ELSE LET to_insert == NewNode(cs)
               IN Res("ok", h,
                      [cs EXCEPT ![to_insert] =
                                   [value |-> obj, next |-> before_inserted.val],
                                 ![before_inserted.val].next = to_insert],
                      <<>>)

\* LinkedList.insert
Insert(cs, h, index, obj) ==
  IF index = 0 THEN InsertFirst(cs, h, obj)
  ELSE LET before_inserted == Nth(index - 1, IterNodes(cs, h))
       IN IF before_inserted.err # "ok" THEN Res(before_inserted.err, h, cs, <<>>)
          ELSE LET to_insert == NewNode(cs)
               IN Res("ok", h,
                      [cs EXCEPT ![to_insert] =
                                   [value |-> obj, next |-> cs[before_inserted.val].next],
                                 ![before_inserted.val].next = to_insert],
                      <<>>)

\* LinkedList._get_last_node (called by extend with a non-empty list only)
GetLastNode(cs, h) == LET ns == IterNodes(cs, h) IN ns[Len(ns)]

\* the loop of extend with the fault of never advancing last_: every new
\* node is hung on the same node
RECURSIVE ChainNoAdvance(_, _, _)
ChainNoAdvance(cs, last_, values) ==
  IF values = <<>> THEN cs
  ELSE LET n == NewNode(cs)
       IN ChainNoAdvance([cs EXCEPT ![n] = [value |-> Head(values), next |-> 0],
                                    ![last_].next = n],
                         last_, Tail(values))

\* the loop of LinkedList.extend: chain the values after node last_
RECURSIVE Chain(_, _, _)
Chain(cs, last_, values) ==
  IF values = <<>> THEN cs
  ELSE LET n == NewNode(cs)
       IN Chain([cs EXCEPT ![n] = [value |-> Head(values), next |-> 0],
                           ![last_].next = n],
                n, Tail(values))

\* LinkedList.extend, for an iterable that yields the finite sequence values
\* and does not read the list being extended
Extend(cs, h, values) ==
  IF h = 0 /\ values = <<>> THEN Res("ok", h, cs, <<>>)
  ELSE LET first == IF h = 0 THEN InsertFirst(cs, h, Head(values)) ELSE Res("ok", h, cs, <<>>)
           rest == IF h = 0 THEN Tail(values) ELSE values
       IN Res("ok", first.head,
              Chain(first.cells, GetLastNode(first.cells, first.head), rest), <<>>)

\* pop with the fault of taking the first element whatever the index
PopFirst(cs, h, index) ==
  LET v == GetByIndex(cs, h, 0)
  IN IF v.err # "ok" THEN v
     ELSE LET d == DelByIndex(cs, h, 0)
          IN IF d.err # "ok" THEN d ELSE Res("ok", d.head, d.cells, v.ret)

\* MutableSequence.pop, inherited: v = self[index]; del self[index]; return v
Pop(cs, h, index) ==
  LET v == GetByIndex(cs, h, index)
  IN IF v.err # "ok" THEN v
     ELSE LET d == DelByIndex(cs, h, index)
          IN IF d.err # "ok" THEN d ELSE Res("ok", d.head, d.cells, v.ret)

\* reverse_using_pop of the tests: seq_.pop() again and again until it
\* raises; ret collects what the calls returned, err is what ended them
RECURSIVE ReverseUsingPop(_, _)
ReverseUsingPop(cs, h) ==
  LET r == Pop(cs, h, 0 - 1)
  IN IF r.err # "ok" THEN Res(r.err, r.head, r.cells, <<>>)
     ELSE LET rest == ReverseUsingPop(r.cells, r.head)
          IN Res(rest.err, rest.head, rest.cells, r.ret \o rest.ret)

\* clear with the fault of popping a single element
ClearOnce(cs, h) ==
  LET r == Pop(cs, h, 0 - 1)
  IN Res("ok", r.head, r.cells, <<>>)

\* MutableSequence.clear, inherited: self.pop() until it raises IndexError,
\* which clear swallows; any other exception leaves clear
Clear(cs, h) ==
  LET r == ReverseUsingPop(cs, h)
  IN Res(IF r.err = "IndexError" THEN "ok" ELSE r.err, r.head, r.cells, <<>>)

\* MutableSequence.append, inherited: self.insert(len(self), value)
AppendValue(cs, h, value) == Insert(cs, h, Length(cs, h), value)

(***************************************************************************)
(* Slices.  A slice is [start, stop, step], each <<>> (None) or <<k>>.     *)
(***************************************************************************)
\* bound on the magnitude of a slice's step
MaxStep == 2

OptIdx == {<<>>} \cup {<<i>> : i \in Indexes}
OptStep == {<<>>} \cup {<<k>> : k \in ((0 - MaxStep)..MaxStep) \ {0}}
Slices == [start : OptIdx, stop : OptIdx, step : OptStep]
NoSlice == [start |-> <<>>, stop |-> <<>>, step |-> <<>>]

Min(a, b) == IF a < b THEN a ELSE b
Max(a, b) == IF a < b THEN b ELSE a

\* slice.indices(length), as _normalize_slice and range.__getitem__ use it
SliceIndices(slice_, length) ==
  LET step == IF slice_.step = <<>> THEN 1 ELSE slice_.step[1]
      lower == IF step < 0 THEN 0 - 1 ELSE 0
      upper == IF step < 0 THEN length - 1 ELSE length
      Clamp(i) == IF i < 0 THEN Max(i + length, lower) ELSE Min(i, upper)
  IN [start |-> IF slice_.start = <<>> THEN (IF step < 0 THEN upper ELSE lower)
                ELSE Clamp(slice_.start[1]),
      stop |-> IF slice_.stop = <<>> THEN (IF step < 0 THEN lower ELSE upper)
               ELSE Clamp(slice_.stop[1]),
      step |-> step]

\* the elements of range(start, stop, step)
RangeSeq(start, stop, step) ==
  LET n == IF step > 0
             THEN (IF start < stop THEN ((stop - start - 1) \div step) + 1 ELSE 0)
             ELSE (IF stop < start THEN ((start - stop - 1) \div (0 - step)) + 1 ELSE 0)
  IN [k \in 1..n |-> start + (k - 1) * step]

\* _indexes_for_slice: range(length)[slice_]; first with the fault of
\* yielding the positions of a negative step in ascending order
IndexesForSliceAscending(slice_, length) ==
  LET i == SliceIndices(slice_, length)
      idx == RangeSeq(i.start, i.stop, i.step)
  IN IF i.step < 0 THEN [k \in 1..Len(idx) |-> idx[Len(idx) + 1 - k]] ELSE idx

IndexesForSlice(slice_, length) ==
  LET i == SliceIndices(slice_, length) IN RangeSeq(i.start, i.stop, i.step)

\* _ListABC.__init__ with an iterable yielding values: extend on an empty list
Construct(cs, values) == Extend(cs, 0, values)

\* The arguments LinkedList(...) is called with: nothing (None), an object
\* iter() rejects with TypeError, or an iterable yielding values.
ConstructorArgs ==
  {[kind |-> "none", values |-> <<>>], [kind |-> "noniterable", values |-> <<>>]}
    \cup {[kind |-> "iterable", values |-> v] : v \in SeqsUpTo(Values, MaxLen)}

\* _ListABC.__init__
ConstructFrom(cs, arg) ==
  IF arg.kind = "none" THEN Res("ok", 0, cs, <<>>)
  ELSE IF arg.kind = "noniterable" THEN Res("ok", 0, cs, <<>>)
  ELSE Extend(cs, 0, arg.values)

\* _LinkedListAbstractBase._iter_nodes_by_slice
IterNodesBySlice(cs, h, slice_) ==
  LET idx == IndexesForSlice(slice_, Length(cs, h))
  IN [k \in 1..Len(idx) |-> Nth(idx[k], IterNodes(cs, h)).val]

\* _LinkedListAbstractBase._get_by_slice: a new list of the addressed values
\* _get_by_slice with the fault of handing out the source's own chain from the
\* first addressed node on instead of building new nodes
GetBySliceView(cs, h, slice_) ==
  LET ns == IterNodesBySlice(cs, h, slice_)
  IN Res("ok", IF ns = <<>> THEN 0 ELSE ns[1], cs, <<>>)

GetBySlice(cs, h, slice_) ==
  LET ns == IterNodesBySlice(cs, h, slice_)
  IN Construct(cs, [k \in 1..Len(ns) |-> cs[ns[k]].value])

\* the loop of _LinkedListAbstractBase._set_by_slice: node.value =
\* next(values_iter) for each addressed node; an exhausted values_iter ends
\* the call with StopIteration after the writes already made
RECURSIVE SetLoop(_, _, _)
SetLoop(cs, nodes, values) ==
  IF nodes = <<>> THEN [err |-> "ok", cells |-> cs]
  ELSE IF values = <<>> THEN [err |-> "StopIteration", cells |-> cs]
  ELSE SetLoop([cs EXCEPT ![Head(nodes)].value = Head(values)],
               Tail(nodes), Tail(values))

\* _set_by_slice with the fault of handing the values to the addressed nodes
\* from the last to the first
SetBySliceBackwards(cs, h, slice_, values) ==
  LET nodes == IterNodesBySlice(cs, h, slice_)
      r == SetLoop(cs, [k \in 1..Len(nodes) |-> nodes[Len(nodes) + 1 - k]],
                   values)
  IN Res(r.err, h, r.cells, <<>>)

\* _LinkedListAbstractBase._set_by_slice
SetBySlice(cs, h, slice_, values) ==
  LET r == SetLoop(cs, IterNodesBySlice(cs, h, slice_), values)
  IN Res(r.err, h, r.cells, <<>>)

\* LinkedList._del_by_slice with the fault of deleting the first addressed
\* element instead of refusing
DelBySliceFirst(cs, h, slice_) ==
  LET idx == IndexesForSlice(slice_, Length(cs, h))
  IN IF idx = <<>> THEN Res("ok", h, cs, <<>>) ELSE DelByIndex(cs, h, idx[1])

\* LinkedList._del_by_slice
DelBySlice(cs, h, slice_) == Res("NotImplementedError", h, cs, <<>>)

(***************************************************************************)
(* The reference: Python's built-in list, as the tests use it.             *)
(***************************************************************************)
PyRes(e, s, r) == [err |-> e, seq |-> s, ret |-> r]

PyValid(s, i) == (0 - Len(s)) <= i /\ i < Len(s)
PyPos(s, i) == IF i < 0 THEN i + Len(s) + 1 ELSE i + 1
RemoveAt(s, p) == [k \in 1..(Len(s) - 1) |-> IF k < p THEN s[k] ELSE s[k + 1]]
InsertAt(s, p, x) ==
  [k \in 1..(Len(s) + 1) |-> IF k < p THEN s[k] ELSE IF k = p THEN x ELSE s[k - 1]]

PyGet(s, i) ==
  IF PyValid(s, i) THEN PyRes("ok", s, <<s[PyPos(s, i)]>>) ELSE PyRes("IndexError", s, <<>>)
PySet(s, i, x) ==
  IF PyValid(s, i) THEN PyRes("ok", [s EXCEPT ![PyPos(s, i)] = x], <<>>)
  ELSE PyRes("IndexError", s, <<>>)
PyDel(s, i) ==
  IF PyValid(s, i) THEN PyRes("ok", RemoveAt(s, PyPos(s, i)), <<>>)
  ELSE PyRes("IndexError", s, <<>>)
PyPop(s, i) ==
  IF PyValid(s, i) THEN PyRes("ok", RemoveAt(s, PyPos(s, i)), <<s[PyPos(s, i)]>>)
  ELSE PyRes("IndexError", s, <<>>)
\* list.insert clamps the index into 0..len
PyInsert(s, i, x) ==
  LET j == IF i < 0 THEN Max(i + Len(s), 0) ELSE Min(i, Len(s))
  IN PyRes("ok", InsertAt(s, j + 1, x), <<>>)
PyAppend(s, x) == PyRes("ok", Append(s, x), <<>>)

PyCall(op, s, i, x) ==
  CASE op = "get" -> PyGet(s, i)
    [] op = "set" -> PySet(s, i, x)
    [] op = "del" -> PyDel(s, i)
    [] op = "pop" -> PyPop(s, i)
    [] op = "pop_default" -> PyPop(s, 0 - 1)
    [] op = "insert" -> PyInsert(s, i, x)
    [] op = "append" -> PyAppend(s, x)
    [] OTHER -> PyRes("ok", s, <<>>)

(***************************************************************************)
(* tree.py: the node heap.  A node is [value, left, right, parent]; a free *)
(* cell holds value 0.                                                     *)
(***************************************************************************)
\* most nodes a tree is grown to
MaxSize == 4
\* tree values are 1..MaxTVal
MaxTVal == 3

TValues == 1..MaxTVal
\* the tree, the detached nodes its parent links still reference, and one
\* node being added
NumTNodes == 2 * MaxSize + 1
TAddr == 1..NumTNodes
NoTNode == [value |-> 0, left |-> 0, right |-> 0, parent |-> 0]
EmptyTHeap == [a \in TAddr |-> NoTNode]

\* BinaryTreeNode(value): a fresh node without children or parent
NewTNode(tn) ==
  CHOOSE a \in TAddr : tn[a].value = 0 /\ \A b \in TAddr : tn[b].value = 0 => a <= b
MakeTNode(tn, a, value) ==
  [tn EXCEPT ![a] = [value |-> value, left |-> 0, right |-> 0, parent |-> 0]]

\* the left setter with the fault of also clearing the parent link of the
\* child it replaces
SetLeftDetaching(tn, p, c) ==
  LET old == tn[p].left
      t0 == IF old # 0 THEN [tn EXCEPT ![old].parent = 0] ELSE tn
  IN IF c # 0 THEN [t0 EXCEPT ![c].parent = p, ![p].left = c]
     ELSE [t0 EXCEPT ![p].left = 0]

\* BinaryTreeNode.left setter
SetLeft(tn, p, c) ==
  IF c # 0 THEN [tn EXCEPT ![c].parent = p, ![p].left = c] ELSE [tn EXCEPT ![p].left = 0]

\* BinaryTreeNode.right setter
SetRight(tn, p, c) ==
  IF c # 0 THEN [tn EXCEPT ![c].parent = p, ![p].right = c] ELSE [tn EXCEPT ![p].right = 0]

\* BinaryTreeNodeABC.is_leaf
IsLeaf(tn, n) == tn[n].left = 0 /\ tn[n].right = 0

\* BinaryTreeNodeABC.is_root
IsRoot(tn, n) == tn[n].parent = 0

\* BinaryTreeNodeABC.children, without the None entries
Children(tn, n) ==
  (IF tn[n].left # 0 THEN <<tn[n].left>> ELSE <<>>)
    \o (IF tn[n].right # 0 THEN <<tn[n].right>> ELSE <<>>)

Reverse(s) == [k \in 1..Len(s) |-> s[Len(s) + 1 - k]]

\* traverse_bfs with the fault of putting the children at the left end of the
\* deque in one piece, so that the right child leaves it before the left
RECURSIVE BfsLoopRightFirst(_, _, _)
BfsLoopRightFirst(tn, to_visit, fuel) ==
  IF to_visit = <<>> \/ fuel = 0 THEN <<>>
  ELSE LET node == to_visit[Len(to_visit)]
           rest == SubSeq(to_visit, 1, Len(to_visit) - 1)
       IN <<node>> \o BfsLoopRightFirst(tn, Children(tn, node) \o rest, fuel - 1)

\* BinaryTreeNodeABC.traverse_bfs: to_visit is the deque, its right end last;
\* pop() takes the right end and extendleft puts each child at the left end.
\* The fuel ends the traversal of a heap that is no tree.
RECURSIVE BfsLoop(_, _, _)
BfsLoop(tn, to_visit, fuel) ==
  IF to_visit = <<>> \/ fuel = 0 THEN <<>>
  ELSE LET node == to_visit[Len(to_visit)]
           rest == SubSeq(to_visit, 1, Len(to_visit) - 1)
       IN <<node>> \o BfsLoop(tn, Reverse(Children(tn, node)) \o rest, fuel - 1)

TraverseBfs(tn, n) == BfsLoop(tn, <<n>>, 2 * NumTNodes)

\* traverse_dfs_preorder with the fault of pushing the children unreversed,
\* so that the right child is popped before the left
RECURSIVE DfsLoopRightFirst(_, _, _)
DfsLoopRightFirst(tn, to_visit, fuel) ==
  IF to_visit = <<>> \/ fuel = 0 THEN <<>>
  ELSE LET node == to_visit[Len(to_visit)]
           rest == SubSeq(to_visit, 1, Len(to_visit) - 1)
       IN <<node>> \o DfsLoopRightFirst(tn, rest \o Children(tn, node), fuel - 1)

\* BinaryTreeNodeABC.traverse_dfs_preorder: to_visit is the deque used as a
\* stack; pop() takes the right end and extend puts the children there, the
\* right child first (children[::-1]).
RECURSIVE DfsLoop(_, _, _)
DfsLoop(tn, to_visit, fuel) ==
  IF to_visit = <<>> \/ fuel = 0 THEN <<>>
  ELSE LET node == to_visit[Len(to_visit)]
           rest == SubSeq(to_visit, 1, Len(to_visit) - 1)
       IN <<node>> \o DfsLoop(tn, rest \o Reverse(Children(tn, node)), fuel - 1)

TraverseDfsPreorder(tn, n) == DfsLoop(tn, <<n>>, 2 * NumTNodes)

\* get_level with the fault of counting the node itself
RECURSIVE LevelFromOne(_, _, _)
LevelFromOne(tn, node, fuel) ==
  IF fuel = 0 THEN 0 ELSE 1 + (IF tn[node].parent = 0 THEN 0
                               ELSE LevelFromOne(tn, tn[node].parent, fuel - 1))

\* BinaryTreeNodeABC.get_level: the parent links walked up to the root
RECURSIVE LevelFrom(_, _, _)
LevelFrom(tn, node, fuel) ==
  IF tn[node].parent = 0 \/ fuel = 0 THEN 0
  ELSE 1 + LevelFrom(tn, tn[node].parent, fuel - 1)

GetLevel(tn, node) == LevelFrom(tn, node, NumTNodes)

\* BinaryTreeABC.__iter__: the values in BFS order, nothing for an empty tree
TreeIter(tn, r) ==
  IF r = 0 THEN <<>>
  ELSE LET ns == TraverseBfs(tn, r) IN [k \in 1..Len(ns) |-> tn[ns[k]].value]

\* BinaryTreeABC.__len__
TreeLen(tn, r) == Len(TreeIter(tn, r))

\* the truth value as the class docstring words it: empty instances truthy
TreeBoolAsDocumented(tn, r) == TreeLen(tn, r) = 0

\* bool(tree): the classes define no __bool__, so Python takes __len__() != 0
TreeBool(tn, r) == TreeLen(tn, r) # 0

\* BinaryTreeNodeABC.get_rightmost_descendant
RECURSIVE RightmostFrom(_, _, _)
RightmostFrom(tn, node, fuel) ==
  IF tn[node].right = 0 \/ fuel = 0 THEN node
  ELSE RightmostFrom(tn, tn[node].right, fuel - 1)

GetRightmostDescendant(tn, node) == RightmostFrom(tn, node, NumTNodes)

\* The outcome of a call on a tree
TRes(e, r, tn) == [err |-> e, root |-> r, nodes |-> tn]

\* the search for a value with the fault of settling for the first node when
\* no node holds it
FirstWithOrFirst(tn, ns, value) ==
  IF \E k \in 1..Len(ns) : tn[ns[k]].value = value
    THEN CHOOSE k \in 1..Len(ns) :
           tn[ns[k]].value = value /\ \A j \in 1..(k - 1) : tn[ns[j]].value # value
    ELSE IF ns # <<>> THEN 1 ELSE 0

\* index of the first node of the sequence ns holding value, 0 if none
FirstWith(tn, ns, value) ==
  IF \E k \in 1..Len(ns) : tn[ns[k]].value = value
    THEN CHOOSE k \in 1..Len(ns) :
           tn[ns[k]].value = value /\ \A j \in 1..(k - 1) : tn[ns[j]].value # value
    ELSE 0

(***************************************************************************)
(* tree.py: BinaryReferenceTree                                            *)
(***************************************************************************)
\* BinaryReferenceTree._find_node_and_parent: [node, parent]
RefFindNodeAndParent(tn, r, value) ==
  IF r = 0 THEN [node |-> 0, parent |-> 0]
  ELSE LET ns == TraverseBfs(tn, r)
           k == FirstWith(tn, ns, value)
       IN IF k = 0 THEN [node |-> 0, parent |-> 0]
          ELSE [node |-> ns[k], parent |-> tn[ns[k]].parent]

\* add with the fault of filling the right slot before the left
RefAddRightFirst(tn, r, value) ==
  LET new == NewTNode(tn)
      tn1 == MakeTNode(tn, new, value)
  IN IF r = 0 THEN TRes("ok", new, tn1)
     ELSE LET ns == TraverseBfs(tn, r)
              k == CHOOSE k \in 1..Len(ns) :
                     /\ (tn[ns[k]].left = 0 \/ tn[ns[k]].right = 0)
                     /\ \A j \in 1..(k - 1) : tn[ns[j]].left # 0 /\ tn[ns[j]].right # 0
              to_append_to == ns[k]
          IN IF tn[to_append_to].right = 0
               THEN TRes("ok", r, SetRight(tn1, to_append_to, new))
               ELSE TRes("ok", r, SetLeft(tn1, to_append_to, new))

\* BinaryReferenceTree.add
RefAdd(tn, r, value) ==
  LET new == NewTNode(tn)
      tn1 == MakeTNode(tn, new, value)
  IN IF r = 0 THEN TRes("ok", new, tn1)
     ELSE LET ns == TraverseBfs(tn, r)
              k == CHOOSE k \in 1..Len(ns) :
                     /\ (tn[ns[k]].left = 0 \/ tn[ns[k]].right = 0)
                     /\ \A j \in 1..(k - 1) : tn[ns[j]].left # 0 /\ tn[ns[j]].right # 0
              to_append_to == ns[k]
          IN IF tn[to_append_to].left = 0
               THEN TRes("ok", r, SetLeft(tn1, to_append_to, new))
               ELSE TRes("ok", r, SetRight(tn1, to_append_to, new))

\* BinaryReferenceTree._delete_leaf
DeleteLeaf(tn, r, leaf) ==
  LET p == tn[leaf].parent
  IN IF p = 0 THEN TRes("ok", 0, tn)
     ELSE IF tn[p].left = leaf THEN TRes("ok", r, SetLeft(tn, p, 0))
     ELSE TRes("ok", r, SetRight(tn, p, 0))

\* _delete_non_leaf with the fault of taking the next node in BFS order, not
\* the last, as the donor
DeleteNonLeafNext(tn, r, node, remaining_nodes_bfs) ==
  IF remaining_nodes_bfs = <<>> THEN TRes("ValueError", r, tn)
  ELSE LET next_node == remaining_nodes_bfs[1]
       IN DeleteLeaf([tn EXCEPT ![node].value = tn[next_node].value], r, next_node)

\* BinaryReferenceTree._delete_non_leaf
DeleteNonLeaf(tn, r, node, remaining_nodes_bfs) ==
  IF remaining_nodes_bfs = <<>> THEN TRes("ValueError", r, tn)
  ELSE LET bottom_rightmost_leaf == remaining_nodes_bfs[Len(remaining_nodes_bfs)]
       IN DeleteLeaf([tn EXCEPT ![node].value = tn[bottom_rightmost_leaf].value],
                     r, bottom_rightmost_leaf)

\* discard with the fault of leaving out the leaf case: every found node goes
\* to _delete_non_leaf
RefDiscardNoLeafCase(tn, r, value) ==
  IF r = 0 THEN TRes("KeyError", r, tn)
  ELSE LET nodes == TraverseBfs(tn, r)
           k == FirstWith(tn, nodes, value)
       IN IF k = 0 THEN TRes("KeyError", r, tn)
          ELSE DeleteNonLeaf(tn, r, nodes[k], SubSeq(nodes, k + 1, Len(nodes)))

\* BinaryReferenceTree.discard
RefDiscard(tn, r, value) ==
  IF r = 0 THEN TRes("KeyError", r, tn)
  ELSE LET nodes == TraverseBfs(tn, r)
           k == FirstWith(tn, nodes, value)
       IN IF k = 0 THEN TRes("KeyError", r, tn)
          ELSE IF IsLeaf(tn, nodes[k]) THEN DeleteLeaf(tn, r, nodes[k])
          ELSE DeleteNonLeaf(tn, r, nodes[k], SubSeq(nodes, k + 1, Len(nodes)))

(***************************************************************************)
(* tree.py: BstReferenceTree                                               *)
(***************************************************************************)
\* BstReferenceTree._find_node_and_parent: [node, parent]
RECURSIVE BstDescend(_, _, _, _, _)
BstDescend(tn, node, parent, value, fuel) ==
  IF node = 0 \/ fuel = 0 THEN [node |-> node, parent |-> parent]
  ELSE IF tn[node].value = value THEN [node |-> node, parent |-> parent]
  ELSE BstDescend(tn, IF value < tn[node].value THEN tn[node].left ELSE tn[node].right,
                  node, value, fuel - 1)

BstFindNodeAndParent(tn, r, value) == BstDescend(tn, r, 0, value, 2 * NumTNodes)

\* BstReferenceTree.add; first with the fault of comparing the wrong way round
BstAddMirrored(tn, r, value) ==
  LET node_to_add == NewTNode(tn)
      tn1 == MakeTNode(tn, node_to_add, value)
      parent == BstFindNodeAndParent(tn, r, value).parent
  IN IF parent = 0 THEN TRes("ok", node_to_add, tn1)
     ELSE IF tn[parent].value < value THEN TRes("ok", r, SetLeft(tn1, parent, node_to_add))
     ELSE TRes("ok", r, SetRight(tn1, parent, node_to_add))

BstAdd(tn, r, value) ==
  LET node_to_add == NewTNode(tn)
      tn1 == MakeTNode(tn, node_to_add, value)
      parent == BstFindNodeAndParent(tn, r, value).parent
  IN IF parent = 0 THEN TRes("ok", node_to_add, tn1)
     ELSE IF value < tn[parent].value THEN TRes("ok", r, SetLeft(tn1, parent, node_to_add))
     ELSE TRes("ok", r, SetRight(tn1, parent, node_to_add))

\* BstReferenceTree._delete_with_both_children
DeleteWithBothChildren(tn, r, node) ==
  IF tn[node].left = 0 THEN TRes("ok", r, tn)
  ELSE LET replacement_node == GetRightmostDescendant(tn, tn[node].left)
           tn1 == SetLeft(tn, tn[replacement_node].parent, tn[replacement_node].right)
       IN TRes("ok", r, [tn1 EXCEPT ![node].value = tn[replacement_node].value])

\* BstReferenceTree._delete_node_with_children
DeleteNodeWithChildren(tn, r, node) ==
  IF tn[node].left # 0 /\ tn[node].right # 0 THEN DeleteWithBothChildren(tn, r, node)
  ELSE LET replacement_node == IF tn[node].left # 0 THEN tn[node].left ELSE tn[node].right
           p == tn[node].parent
       IN IF p = 0 THEN TRes("ok", replacement_node, tn)
          ELSE IF tn[p].left = node THEN TRes("ok", r, SetLeft(tn, p, replacement_node))
          ELSE TRes("ok", r, SetRight(tn, p, replacement_node))

\* BstReferenceTree.discard
BstDiscard(tn, r, value) ==
  LET node == BstFindNodeAndParent(tn, r, value).node
  IN IF node = 0 THEN TRes("KeyError", r, tn)
     ELSE IF IsLeaf(tn, node) THEN DeleteLeaf(tn, r, node)
     ELSE DeleteNodeWithChildren(tn, r, node)

(***************************************************************************)
(* The two tree classes behind one interface; kind is the class.           *)
(***************************************************************************)
Kinds == {"BinaryReferenceTree", "BstReferenceTree"}

TreeAdd(k, tn, r, value) ==
  IF k = "BstReferenceTree" THEN BstAdd(tn, r, value) ELSE RefAdd(tn, r, value)

TreeDiscard(k, tn, r, value) ==
  IF k = "BstReferenceTree" THEN BstDiscard(tn, r, value) ELSE RefDiscard(tn, r, value)

\* BinaryTreeABC.__init__ with an iterable yielding values: add each in turn
RECURSIVE TreeConstruct(_, _, _, _)
TreeConstruct(k, tn, r, values) ==
  IF values = <<>> THEN TRes("ok", r, tn)
  ELSE LET a == TreeAdd(k, tn, r, Head(values))
       IN TreeConstruct(k, a.nodes, a.root, Tail(values))

\* __contains__ with the fault of testing the parent that
\* _find_node_and_parent returns instead of the node
TreeContainsParent(k, tn, r, value) ==
  IF k = "BstReferenceTree" THEN BstFindNodeAndParent(tn, r, value).parent # 0
  ELSE RefFindNodeAndParent(tn, r, value).parent # 0

\* BinaryReferenceTree.__contains__, over the class's own _find_node_and_parent
TreeContains(k, tn, r, value) ==
  IF k = "BstReferenceTree" THEN BstFindNodeAndParent(tn, r, value).node # 0
  ELSE RefFindNodeAndParent(tn, r, value).node # 0

\* The nodes of the tree in BFS order, followed by the detached nodes they
\* still reference, each found from the earliest node that links to it
\* (parent, then left, then right).
RECURSIVE Discover(_, _)
Discover(tn, order) ==
  LET known == {order[k] : k \in 1..Len(order)}
      Links(a) == <<tn[a].parent, tn[a].left, tn[a].right>>
      Fresh(a) == {j \in 1..3 : Links(a)[j] # 0 /\ Links(a)[j] \notin known}
      from == {k \in 1..Len(order) : Fresh(order[k]) # {}}
  IN IF from = {} THEN order
     ELSE LET k == CHOOSE k \in from : \A j \in from : k <= j
              l == CHOOSE l \in Fresh(order[k]) : \A j \in Fresh(order[k]) : l <= j
          IN Discover(tn, Append(order, Links(order[k])[l]))

\* As for lists, the heap is kept up to renaming of addresses: live nodes are
\* named 1, 2, ... in the order above and unreferenced nodes are reclaimed.
Collect(tn, r) ==
  LET live == IF r = 0 THEN <<>> ELSE Discover(tn, TraverseBfs(tn, r))
      Name(a) == IF a = 0 THEN 0 ELSE Position(live, a)
  IN [root |-> Name(r),
      nodes |-> [a \in TAddr |->
                   IF a <= Len(live)
                     THEN [value |-> tn[live[a]].value,
                           left |-> Name(tn[live[a]].left),
                           right |-> Name(tn[live[a]].right),
                           parent |-> Name(tn[live[a]].parent)]
                     ELSE NoTNode]]

(***************************************************************************)
(* The state machine.  last and tlast record the latest call: its          *)
(* arguments, what the collection iterated to before it (pre), the         *)
(* exception it raised (err) and what it returned (ret).                   *)
(***************************************************************************)
Call(op, idx, val, sl, vals, pre, err, ret) ==
  [op |-> op, idx |-> idx, val |-> val, sl |-> sl, vals |-> vals,
   pre |-> pre, err |-> err, ret |-> ret]

TCall(op, val, pre, err) == [op |-> op, val |-> val, pre |-> pre, err |-> err]

ListIdle ==
  /\ head = 0
  /\ cells = EmptyHeap
  /\ other = 0
  /\ last = Call("none", 0, 0, NoSlice, <<>>, <<>>, "ok", <<>>)

RefIdle ==
  /\ ref = <<>>
  /\ reflast = PyRes("none", <<>>, <<>>)

TreeIdle ==
  /\ root = 0
  /\ tnodes = EmptyTHeap
  /\ kind = "BinaryReferenceTree"
  /\ tlast = TCall("none", 0, <<>>, "ok")

SortIdle ==
  /\ seq = <<>>
  /\ slast = [op |-> "none", reverse |-> FALSE, pre |-> <<>>, err |-> "ok"]

\* list_ = LinkedList(values)
InitList ==
  \E values \in SeqsUpTo(Values, MaxLen) :
    LET c == Construct(EmptyHeap, values)
        n == Compact(c.cells, c.head, 0)
    IN /\ head = n.head
       /\ cells = n.cells
       /\ other = 0
       /\ last = Call("construct", 0, 0, NoSlice, values, <<>>, c.err, <<>>)

\* A test that runs a built-in list beside the linked list makes each call on
\* both (reflast.err is "none" when no built-in list is run); it ends at the
\* first disagreement.
Agree ==
  /\ Iter(cells, head) = ref
  /\ last.err = reflast.err
  /\ last.ret = reflast.ret

RefFollows ==
  IF reflast.err = "none" THEN UNCHANGED refVars
  ELSE LET r == PyCall(last'.op, ref, last'.idx, last'.val)
       IN /\ Agree
          /\ ref' = r.seq
          /\ reflast' = r

\* The list is left as the call r left it; a slice result of an earlier call
\* is dropped.
ListStep(op, idx, val, r) ==
  LET n == Compact(r.cells, r.head, 0)
  IN /\ Length(r.cells, r.head) <= MaxLen
     /\ head' = n.head
     /\ cells' = n.cells
     /\ other' = 0
     /\ last' = Call(op, idx, val, NoSlice, <<>>, Iter(cells, head), r.err, r.ret)
     /\ RefFollows
     /\ UNCHANGED treeVars
     /\ UNCHANGED sortVars

\* list_[i]
Get(i) == ListStep("get", i, 0, GetByIndex(cells, head, i))

\* list_[i] = x
Set(i, x) == ListStep("set", i, x, SetByIndex(cells, head, i, x))

\* del list_[i]
Del(i) == ListStep("del", i, 0, DelByIndex(cells, head, i))

\* list_.pop(i)
PopAt(i) == ListStep("pop", i, 0, Pop(cells, head, i))

\* list_.pop()
PopDefault == ListStep("pop_default", 0 - 1, 0, Pop(cells, head, 0 - 1))

\* list_.insert(i, x)
InsertAction(i, x) == ListStep("insert", i, x, Insert(cells, head, i, x))

\* list_.append(x)
AppendAction(x) ==
  ListStep("append", Length(cells, head), x, AppendValue(cells, head, x))

ListNext ==
  \/ \E i \in Indexes : Get(i)
  \/ \E i \in Indexes, x \in Values : Set(i, x)
  \/ \E i \in Indexes : Del(i)
  \/ \E i \in Indexes : PopAt(i)
  \/ PopDefault
  \/ \E i \in Indexes, x \in Values : InsertAction(i, x)
  \/ \E x \in Values : AppendAction(x)

Init == InitList /\ RefIdle /\ TreeIdle /\ SortIdle
Spec == Init /\ [][ListNext]_vars

\* builtin_list = list(iterable); list_ = list_type(iterable)
InitLockstep ==
  /\ InitList
  /\ ref = last.vals
  /\ reflast = PyRes("ok", ref, <<>>)
  /\ TreeIdle
  /\ SortIdle

SpecLockstep == InitLockstep /\ [][ListNext]_vars

(***************************************************************************)
(* Trees: tree = tree_type(None), then add and discard calls.              *)
(***************************************************************************)
InitTree ==
  /\ kind \in Kinds
  /\ root = 0
  /\ tnodes = EmptyTHeap
  /\ tlast = TCall("construct", 0, <<>>, "ok")
  /\ ListIdle
  /\ RefIdle
  /\ SortIdle

TreeStep(op, value, r) ==
  /\ root' = Collect(r.nodes, r.root).root
  /\ tnodes' = Collect(r.nodes, r.root).nodes
  /\ kind' = kind
  /\ tlast' = TCall(op, value, TreeIter(tnodes, root), r.err)
  /\ UNCHANGED listVars
  /\ UNCHANGED refVars
  /\ UNCHANGED sortVars

\* tree.add(v)
Add(v) ==
  /\ TreeLen(tnodes, root) < MaxSize
  /\ \E a \in TAddr : tnodes[a].value = 0
  /\ TreeStep("add", v, TreeAdd(kind, tnodes, root, v))

\* tree.discard(v)
Discard(v) == TreeStep("discard", v, TreeDiscard(kind, tnodes, root, v))

NextTree ==
  \/ \E v \in TValues : Add(v)
  \/ \E v \in TValues : Discard(v)

SpecTree == InitTree /\ [][NextTree]_vars

\* add calls only
NextTreeAdd == \E v \in TValues : Add(v)
SpecTreeAdd == InitTree /\ [][NextTreeAdd]_vars

(***************************************************************************)
(* Discarding: tree = tree_type(values), then discard calls.               *)
(***************************************************************************)
InitDiscard ==
  /\ kind \in Kinds
  /\ \E values \in SeqsUpTo(TValues, MaxSize) :
       LET c == TreeConstruct(kind, EmptyTHeap, 0, values)
       IN /\ root = Collect(c.nodes, c.root).root
          /\ tnodes = Collect(c.nodes, c.root).nodes
  /\ tlast = TCall("construct", 0, <<>>, "ok")
  /\ ListIdle
  /\ RefIdle
  /\ SortIdle

NextDiscard == \E v \in TValues : Discard(v)
SpecDiscard == InitDiscard /\ [][NextDiscard]_vars

(***************************************************************************)
(* Slicing: list_ = LinkedList(iterable), then one list_[start:stop:step]. *)
(***************************************************************************)
GetSliceAction(slice_) ==
  LET r == GetBySlice(cells, head, slice_)
      n == Compact(r.cells, head, r.head)
  IN /\ last.op = "construct"
     /\ head' = n.head
     /\ cells' = n.cells
     /\ other' = n.other
     /\ last' = Call("get_slice", 0, 0, slice_, <<>>, Iter(cells, head), r.err,
                     Iter(r.cells, r.head))
     /\ RefFollows
     /\ UNCHANGED treeVars
     /\ UNCHANGED sortVars

SliceNext == \E slice_ \in Slices : GetSliceAction(slice_)
SpecSlice == Init /\ [][SliceNext]_vars

(***************************************************************************)
(* Slice assignment: list_ = LinkedList(iterable), then one                *)
(* list_[start:stop:step] = values.                                        *)
(***************************************************************************)
SetSliceAction(slice_, values) ==
  LET r == SetBySlice(cells, head, slice_, values)
      n == Compact(r.cells, r.head, 0)
  IN /\ head' = n.head
     /\ cells' = n.cells
     /\ other' = 0
     /\ last' = Call("set_slice", 0, 0, slice_, values, Iter(cells, head), r.err, <<>>)
     /\ RefFollows
     /\ UNCHANGED treeVars
     /\ UNCHANGED sortVars

SetSliceNext ==
  /\ last.op = "construct"
  /\ \E slice_ \in Slices, values \in SeqsUpTo(Values, MaxLen) :
       SetSliceAction(slice_, values)
SpecSetSlice == Init /\ [][SetSliceNext]_vars

(***************************************************************************)
(* Slice deletion: list_ = LinkedList(iterable), then one                  *)
(* del list_[start:stop:step].                                             *)
(***************************************************************************)
DelSliceAction(slice_) ==
  LET r == DelBySlice(cells, head, slice_)
      n == Compact(r.cells, r.head, 0)
  IN /\ head' = n.head
     /\ cells' = n.cells
     /\ other' = 0
     /\ last' = Call("del_slice", 0, 0, slice_, <<>>, Iter(cells, head), r.err, r.ret)
     /\ RefFollows
     /\ UNCHANGED treeVars
     /\ UNCHANGED sortVars

DelSliceNext ==
  /\ last.op = "construct"
  /\ \E slice_ \in Slices : DelSliceAction(slice_)
SpecDelSlice == Init /\ [][DelSliceNext]_vars

(***************************************************************************)
(* Nodes: root = BinaryTreeNode(0), then child = BinaryTreeNode(k) set as  *)
(* the left or right child of a node of the tree, k counting the nodes     *)
(* made so far; then a traversal or get_level started at a node of the     *)
(* tree.  The fixtures of the tests are among the trees built.             *)
(***************************************************************************)
\* most nodes of a tree of BinaryTreeNode objects
MaxNodes == 7

\* the nodes made so far: the root and every node that was given a parent
NodeSet(tn, r) == {a \in TAddr : a = r \/ tn[a].parent # 0}

NCall(op, node, ret) ==
  [op |-> op, val |-> node, pre |-> <<>>, err |-> "ok", ret |-> ret]

InitNodes ==
  /\ kind = "BinaryTreeNode"
  /\ root = 1
  /\ tnodes = MakeTNode(EmptyTHeap, 1, 0)
  /\ tlast = NCall("construct", 1, <<>>)
  /\ ListIdle
  /\ RefIdle
  /\ SortIdle

NodeStep(op, node, tn, ret) ==
  /\ tnodes' = tn
  /\ tlast' = NCall(op, node, ret)
  /\ UNCHANGED <<root, kind>>
  /\ UNCHANGED listVars
  /\ UNCHANGED refVars
  /\ UNCHANGED sortVars

\* A tree is built first and then queried once: a node is attached, and a
\* traversal or get_level started, only while the calls so far were
\* constructions and attachments.
Building == {"construct", "set_left", "set_right"}

\* p.left = BinaryTreeNode(k)
AttachLeft(p) ==
  LET made == NodeSet(tnodes, root)
      child == CHOOSE a \in TAddr \ made : \A b \in TAddr \ made : a <= b
  IN /\ tlast.op \in Building
     /\ Cardinality(made) < MaxNodes
     /\ p \in made
     /\ tnodes[p].left = 0
     /\ NodeStep("set_left", p,
                 SetLeft(MakeTNode(tnodes, child, Cardinality(made)), p, child), <<>>)

\* p.right = BinaryTreeNode(k)
AttachRight(p) ==
  LET made == NodeSet(tnodes, root)
      child == CHOOSE a \in TAddr \ made : \A b \in TAddr \ made : a <= b
  IN /\ tlast.op \in Building
     /\ Cardinality(made) < MaxNodes
     /\ p \in made
     /\ tnodes[p].right = 0
     /\ NodeStep("set_right", p,
                 SetRight(MakeTNode(tnodes, child, Cardinality(made)), p, child), <<>>)

\* list(r.traverse_bfs())
BfsAction(r) ==
  /\ tlast.op \in Building
  /\ r \in NodeSet(tnodes, root)
  /\ NodeStep("traverse_bfs", r, tnodes, TraverseBfs(tnodes, r))

\* list(r.traverse_dfs_preorder())
DfsAction(r) ==
  /\ tlast.op \in Building
  /\ r \in NodeSet(tnodes, root)
  /\ NodeStep("traverse_dfs_preorder", r, tnodes, TraverseDfsPreorder(tnodes, r))

\* r.get_level()
LevelAction(r) ==
  /\ tlast.op \in Building
  /\ r \in NodeSet(tnodes, root)
  /\ NodeStep("get_level", r, tnodes, <<GetLevel(tnodes, r)>>)

NextBfs ==
  \/ \E p \in TAddr : AttachLeft(p)
  \/ \E p \in TAddr : AttachRight(p)
  \/ \E r \in TAddr : BfsAction(r)
SpecBfs == InitNodes /\ [][NextBfs]_vars

NextDfs ==
  \/ \E p \in TAddr : AttachLeft(p)
  \/ \E p \in TAddr : AttachRight(p)
  \/ \E r \in TAddr : DfsAction(r)
SpecDfs == InitNodes /\ [][NextDfs]_vars

NextLevel ==
  \/ \E p \in TAddr : AttachLeft(p)
  \/ \E p \in TAddr : AttachRight(p)
  \/ \E r \in TAddr : LevelAction(r)
SpecLevel == InitNodes /\ [][NextLevel]_vars

\* the fixtures of the tests: _balanced_tree() and _linked_list_tree()
BalancedTree ==
  LET l(n) == tnodes[n].left
      r(n) == tnodes[n].right
      v(n) == tnodes[n].value
  IN /\ kind = "BinaryTreeNode"
     /\ Cardinality(NodeSet(tnodes, root)) = 7
     /\ v(root) = 0
     /\ l(root) # 0 /\ v(l(root)) = 1
     /\ r(root) # 0 /\ v(r(root)) = 2
     /\ l(l(root)) # 0 /\ v(l(l(root))) = 3
     /\ r(l(root)) # 0 /\ v(r(l(root))) = 4
     /\ l(r(root)) # 0 /\ v(l(r(root))) = 5
     /\ r(r(root)) # 0 /\ v(r(r(root))) = 6

LinkedListTree ==
  /\ kind = "BinaryTreeNode"
  /\ Cardinality(NodeSet(tnodes, root)) = 7
  /\ tnodes[root].value = 0
  /\ \A n \in NodeSet(tnodes, root) :
       /\ tnodes[n].left = 0
       /\ tnodes[n].right # 0 => tnodes[tnodes[n].right].value = tnodes[n].value + 1

(***************************************************************************)
(* Construction and extend: list_ = LinkedList(arg), then                  *)
(* list_.extend(values) between pop and append calls.                      *)
(***************************************************************************)
InitExtend ==
  /\ \E arg \in ConstructorArgs :
       LET c == ConstructFrom(EmptyHeap, arg)
           n == Compact(c.cells, c.head, 0)
       IN /\ head = n.head
          /\ cells = n.cells
          /\ other = 0
          /\ last = Call(IF arg.kind = "iterable" THEN "construct"
                         ELSE IF arg.kind = "none" THEN "construct_none"
                         ELSE "construct_noniterable",
                         0, 0, NoSlice, arg.values, <<>>, c.err, <<>>)
  /\ RefIdle
  /\ TreeIdle
  /\ SortIdle

\* list_.extend(values)
ExtendAction(values) ==
  LET r == Extend(cells, head, values)
      n == Compact(r.cells, r.head, 0)
  IN /\ Length(cells, head) + Len(values) <= MaxLen
     /\ Length(r.cells, r.head) <= MaxLen
     /\ head' = n.head
     /\ cells' = n.cells
     /\ other' = 0
     /\ last' = Call("extend", 0, 0, NoSlice, values, Iter(cells, head), r.err, r.ret)
     /\ RefFollows
     /\ UNCHANGED treeVars
     /\ UNCHANGED sortVars

ExtendNext ==
  \/ \E i \in Indexes : PopAt(i)
  \/ \E x \in Values : AppendAction(x)
  \/ \E values \in SeqsUpTo(Values, MaxLen) : ExtendAction(values)
SpecExtend == InitExtend /\ [][ExtendNext]_vars

(***************************************************************************)
(* Popping a list empty: pop() repeated until it raises, between the other *)
(* calls.                                                                  *)
(***************************************************************************)
ReverseUsingPopAction ==
  ListStep("reverse_using_pop", 0 - 1, 0, ReverseUsingPop(cells, head))

PopAllNext ==
  \/ ListNext
  \/ ReverseUsingPopAction
SpecPopAll == Init /\ [][PopAllNext]_vars

(***************************************************************************)
(* Properties                                                              *)
(***************************************************************************)
Contents == Iter(cells, head)
TContents == TreeIter(tnodes, root)
Contains(v) == TreeContains(kind, tnodes, root, v)
Count(s, v) == Cardinality({k \in 1..Len(s) : s[k] = v})
IsSearchTree == kind = "BstReferenceTree"

\* C1: a LinkedList and a built-in list, taken through the same calls, agree
\* after every call on contents (hence length), on the value returned and on
\* the exception raised.
C1_LockstepAgrees == reflast.err # "none" => Agree

\* C2: contains(v) holds right after add(v), and a call that is not a
\* successful discard(v) never turns contains(v) from true to false.
C2_MembershipKept ==
  [][/\ tlast'.op = "add" => TreeContains(kind', tnodes', root', tlast'.val)
     /\ \A v \in TValues :
          (Contains(v) /\ ~(tlast'.op = "discard" /\ tlast'.val = v /\ tlast'.err = "ok"))
            => TreeContains(kind', tnodes', root', v)]_vars

\* C3: after a discard(v) that returned normally on a tree that held exactly
\* one v, contains(v) is false and the length is one less than before.
C3_DiscardRemoves ==
  (tlast.op = "discard" /\ tlast.err = "ok" /\ Count(tlast.pre, tlast.val) = 1)
    => (~Contains(tlast.val) /\ Len(TContents) = Len(tlast.pre) - 1)

\* C4: every add(v) makes the tree exactly one longer, also when v is
\* already stored.
C4_AddGrowsByOne == tlast.op = "add" => Len(TContents) = Len(tlast.pre) + 1

\* in-order traversal: left subtree, node, right subtree
RECURSIVE InOrderFrom(_, _, _)
InOrderFrom(tn, n, fuel) ==
  IF n = 0 \/ fuel = 0 THEN <<>>
  ELSE InOrderFrom(tn, tn[n].left, fuel - 1) \o <<tn[n].value>>
         \o InOrderFrom(tn, tn[n].right, fuel - 1)

InOrder == InOrderFrom(tnodes, root, NumTNodes)
NonDecreasing(s) == \A k \in 1..(Len(s) - 1) : s[k] <= s[k + 1]

\* C5: after add calls only, the in-order traversal of a BstReferenceTree is
\* non-decreasing.
C5_InOrderSorted == IsSearchTree => NonDecreasing(InOrder)

C5_Witness ==
  /\ IsSearchTree
  /\ tlast.op = "add"
  /\ Len(TContents) >= 3
  /\ tnodes[root].left # 0
  /\ tnodes[root].right # 0

\* C6: get, set, del and pop at an index i with -n <= i < n return what the
\* built-in list returns and leave the contents it leaves; index -1 acts as
\* index n - 1.
C6_ValidIndexAsList ==
  (last.op \in {"get", "set", "del", "pop"} /\ PyValid(last.pre, last.idx))
    => LET r == PyCall(last.op, last.pre, last.idx, last.val)
           m == PyCall(last.op, last.pre, Len(last.pre) - 1, last.val)
       IN /\ last.err = "ok"
          /\ last.ret = r.ret
          /\ Contents = r.seq
          /\ last.idx = 0 - 1 => (last.ret = m.ret /\ Contents = m.seq)

C6_Witness ==
  /\ last.op = "pop"
  /\ last.idx = 0 - 1
  /\ Len(last.pre) >= 2
  /\ last.pre[1] # last.pre[Len(last.pre)]
  /\ last.err = "ok"

\* C7: get, set, del, pop(i) at an index outside [-n, n), and pop() on an
\* empty list, raise IndexError and leave the contents unchanged.
C7_OutOfRangeRaises ==
  (last.op \in {"get", "set", "del", "pop", "pop_default"}
     /\ ~PyValid(last.pre, last.idx))
    => (last.err = "IndexError" /\ Contents = last.pre)

C7_Witness ==
  /\ last.op = "del"
  /\ Len(last.pre) >= 1
  /\ last.idx = Len(last.pre)
  /\ last.err = "IndexError"

\* range(n)[start:stop:step], stated by membership: the positions of 0..n-1
\* from the (clamped) start on, before the stop, a multiple of step away
\* from the start; ascending for a positive step, descending for a negative.
PySliceIndexes(n, slice_) ==
  LET step == IF slice_.step = <<>> THEN 1 ELSE slice_.step[1]
      Rel(b) == IF b < 0 THEN b + n ELSE b
      from == IF slice_.start = <<>> THEN (IF step > 0 THEN 0 ELSE n - 1)
              ELSE IF step > 0 THEN Max(Rel(slice_.start[1]), 0)
              ELSE Min(Rel(slice_.start[1]), n - 1)
      Before(i) == IF slice_.stop = <<>> THEN TRUE
                   ELSE IF step > 0 THEN i < Rel(slice_.stop[1])
                   ELSE i > Rel(slice_.stop[1])
      hit == {i \in 0..(n - 1) :
                /\ (IF step > 0 THEN i >= from ELSE i <= from)
                /\ Before(i)
                /\ (Abs(i - from) % Abs(step)) = 0}
      Rank(i) == Cardinality({j \in hit : IF step > 0 THEN j < i ELSE j > i}) + 1
  IN [k \in 1..Cardinality(hit) |-> CHOOSE i \in hit : Rank(i) = k]

\* C8: list_[start:stop:step] is a list of the elements of list_ at the
\* positions range(n)[start:stop:step], in that order.
C8_SliceSelects ==
  last.op = "get_slice"
    => LET idx == PySliceIndexes(Len(last.pre), last.sl)
       IN /\ last.err = "ok"
          /\ Iter(cells, other) = [k \in 1..Len(idx) |-> last.pre[idx[k] + 1]]
          /\ last.ret = Iter(cells, other)
          /\ Contents = last.pre

C8_Witness ==
  /\ last.op = "get_slice"
  /\ last.sl.step = <<0 - 1>>
  /\ last.sl.start = <<MaxLen + 1>>
  /\ last.sl.stop = <<0 - (MaxLen + 2)>>
  /\ Len(last.pre) >= 2
  /\ last.pre[1] # last.pre[Len(last.pre)]
  /\ Len(Iter(cells, other)) = Len(last.pre)

\* C9: insert(index, value) with a negative index puts value first.
C9_NegativeInsertsFirst ==
  (last.op = "insert" /\ last.idx < 0)
    => (last.err = "ok" /\ Contents = <<last.val>> \o last.pre)

\* C10 as stated: insert(n, value) on a list of length n >= 1 raises
\* IndexError.
C10_InsertAtLenRaises ==
  (last.op = "insert" /\ Len(last.pre) >= 1 /\ last.idx = Len(last.pre))
    => last.err = "IndexError"

\* C10 as amended: insert(n, value) on a list of length n >= 1 raises nothing
\* and appends value at the end.
C10_InsertAtLenAppends ==
  (last.op = "insert" /\ Len(last.pre) >= 1 /\ last.idx = Len(last.pre))
    => (last.err = "ok" /\ Contents = Append(last.pre, last.val))

C10_Witness ==
  /\ last.op = "insert"
  /\ Len(last.pre) >= 2
  /\ last.idx = Len(last.pre)
  /\ Len(Contents) = Len(last.pre) + 1

\* C11: insert(index, value) with index greater than the length raises
\* IndexError and leaves the contents, hence the length, as they were.
C11_InsertPastEndRaises ==
  (last.op = "insert" /\ last.idx > Len(last.pre))
    => (last.err = "IndexError" /\ Contents = last.pre)

C11_Witness ==
  /\ last.op = "insert"
  /\ Len(last.pre) >= 1
  /\ last.idx = Len(last.pre) + 1
  /\ last.err = "IndexError"
  /\ Contents = last.pre

\* the contents s after writing values[k] at position idx[k] for each k up to
\* the shorter of idx and values
Overwritten(s, idx, values) ==
  [p \in 1..Len(s) |->
     IF \E k \in 1..Min(Len(idx), Len(values)) : idx[k] + 1 = p
       THEN values[CHOOSE k \in 1..Min(Len(idx), Len(values)) : idx[k] + 1 = p]
       ELSE s[p]]

\* C12: list_[start:stop:step] = values with fewer values than addressed
\* positions writes the values to the first addressed positions, leaves the
\* other positions as they were, and raises nothing.
C12_ShortValuesNoError ==
  LET idx == PySliceIndexes(Len(last.pre), last.sl)
  IN (last.op = "set_slice" /\ Len(last.vals) < Len(idx))
       => (last.err = "ok" /\ Contents = Overwritten(last.pre, idx, last.vals))

\* C13: del list_[start:stop:step] raises NotImplementedError for every slice
\* and every list, and leaves the contents as they were.
C13_DelSliceNotSupported ==
  last.op = "del_slice"
    => (last.err = "NotImplementedError" /\ Contents = last.pre)

C13_Witness ==
  /\ last.op = "del_slice"
  /\ last.err = "NotImplementedError"
  /\ Len(last.pre) = MaxLen
  /\ PySliceIndexes(Len(last.pre), last.sl) = <<1>>
  /\ Contents = last.pre

C15_DuplicateGoesRight ==
  (IsSearchTree /\ tlast.op = "add" /\ Count(tlast.pre, tlast.val) >= 1)
    => (/\ \A w \in TValues :
             Count(TContents, w) = Count(tlast.pre, w) + (IF w = tlast.val THEN 1 ELSE 0)
        /\ \E n \in TAddr :
             /\ tnodes[n].value = tlast.val
             /\ tnodes[n].right # 0
             /\ Count(TreeIter(tnodes, tnodes[n].right), tlast.val) >= 1)

\* The way down from node r to node n, read off the parent links of n: 1 for
\* a step to a left child, 2 for a step to a right child; a 0 in it says that
\* n is not below r.
RECURSIVE PathFrom(_, _, _, _)
PathFrom(tn, r, n, fuel) ==
  IF n = r THEN <<>>
  ELSE IF tn[n].parent = 0 \/ fuel = 0 THEN <<0>>
  ELSE Append(PathFrom(tn, r, tn[n].parent, fuel - 1),
              IF tn[tn[n].parent].left = n THEN 1 ELSE 2)

Under(tn, r, n) ==
  LET p == PathFrom(tn, r, n, NumTNodes) IN \A k \in 1..Len(p) : p[k] # 0

\* the nodes of the subtree of r, and the proper ancestors of n
Subtree(tn, r) == {n \in TAddr : Under(tn, r, n)}
Ancestors(tn, n) == {a \in TAddr : a # n /\ Under(tn, a, n)}

\* p is left of q: at the first step where the ways part, p goes left
LeftOf(p, q) ==
  \E k \in 1..Min(Len(p), Len(q)) :
    p[k] < q[k] /\ \A j \in 1..(k - 1) : p[j] = q[j]

\* p is the way to an ancestor of the node q leads to
PrefixOf(p, q) == Len(p) < Len(q) /\ p = SubSeq(q, 1, Len(p))

ValuesOf(ns) == [k \in 1..Len(ns) |-> tnodes[ns[k]].value]
OnceEach(ns, S) ==
  {ns[k] : k \in 1..Len(ns)} = S /\ Len(ns) = Cardinality(S)

\* C16: traverse_bfs started at r yields each node of the subtree of r once,
\* a node of smaller depth before one of greater depth and, at one depth, the
\* node further left first; on the balanced tree and on the right-only chain
\* of the tests it yields the values 0, 1, 2, 3, 4, 5, 6.
C16_BfsLevelOrder ==
  tlast.op = "traverse_bfs"
    => LET ns == tlast.ret
           P(n) == PathFrom(tnodes, tlast.val, n, NumTNodes)
       IN /\ OnceEach(ns, Subtree(tnodes, tlast.val))
          /\ \A j, k \in 1..Len(ns) :
               j < k => \/ Len(P(ns[j])) < Len(P(ns[k]))
                        \/ /\ Len(P(ns[j])) = Len(P(ns[k]))
                           /\ LeftOf(P(ns[j]), P(ns[k]))
          /\ ((BalancedTree \/ LinkedListTree) /\ tlast.val = root)
               => ValuesOf(ns) = <<0, 1, 2, 3, 4, 5, 6>>

C16_Witness ==
  /\ tlast.op = "traverse_bfs"
  /\ BalancedTree
  /\ tlast.val = root
  /\ Len(tlast.ret) = 7

\* C17: traverse_dfs_preorder started at r yields each node of the subtree of
\* r once, a node before the nodes below it and the left subtree of a node
\* before its right subtree; on the balanced tree of the tests it yields the
\* values 0, 1, 3, 4, 2, 5, 6.
C17_DfsPreorder ==
  tlast.op = "traverse_dfs_preorder"
    => LET ns == tlast.ret
           P(n) == PathFrom(tnodes, tlast.val, n, NumTNodes)
       IN /\ OnceEach(ns, Subtree(tnodes, tlast.val))
          /\ \A j, k \in 1..Len(ns) :
               j < k => \/ PrefixOf(P(ns[j]), P(ns[k]))
                        \/ LeftOf(P(ns[j]), P(ns[k]))
          /\ (BalancedTree /\ tlast.val = root)
               => ValuesOf(ns) = <<0, 1, 3, 4, 2, 5, 6>>

C17_Witness ==
  /\ tlast.op = "traverse_dfs_preorder"
  /\ BalancedTree
  /\ tlast.val = root
  /\ Len(tlast.ret) = 7

\* C18: get_level of a node is the number of its ancestors: 0 for a node
\* without parent, one more than for its parent otherwise; in the balanced
\* tree of the tests 0 for the root, 1 for its children, 2 for theirs.
C18_LevelCountsAncestors ==
  tlast.op = "get_level"
    => LET n == tlast.val
           level == tlast.ret[1]
           v == tnodes[n].value
       IN /\ level = Cardinality(Ancestors(tnodes, n))
          /\ tnodes[n].parent = 0 => level = 0
          /\ tnodes[n].parent # 0
               => level = Cardinality(Ancestors(tnodes, tnodes[n].parent)) + 1
          /\ BalancedTree
               => level = (IF v = 0 THEN 0 ELSE IF v \in {1, 2} THEN 1 ELSE 2)

C18_Witness ==
  /\ tlast.op = "get_level"
  /\ BalancedTree
  /\ tnodes[tlast.val].value = 6
  /\ tlast.ret = <<2>>

\* C19: LinkedList(iterable) holds the elements of the iterable in iteration
\* order, LinkedList() and LinkedList(non-iterable) are empty, and
\* extend(values) leaves the old contents followed by values, which for no
\* values is the old contents.
C19_ExtendAppendsInOrder ==
  /\ last.op = "construct" => (last.err = "ok" /\ Contents = last.vals)
  /\ last.op \in {"construct_none", "construct_noniterable"}
       => (last.err = "ok" /\ Contents = <<>> /\ head = 0)
  /\ last.op = "extend"
       => /\ last.err = "ok"
          /\ Contents = last.pre \o last.vals
          /\ last.vals = <<>> => Contents = last.pre

C19_Witness ==
  /\ last.op = "extend"
  /\ Len(last.pre) >= 1
  /\ Len(last.vals) >= 2
  /\ last.vals[1] # last.vals[2]
  /\ Contents = last.pre \o last.vals

\* C20: pop() repeated on a list of n elements returns the n elements in the
\* reverse of the order of iteration; the list is then empty and the pop()
\* after the n-th raises IndexError.
C20_PopsReturnReversed ==
  last.op = "reverse_using_pop"
    => /\ last.ret = Reverse(last.pre)
       /\ Contents = <<>>
       /\ head = 0
       /\ last.err = "IndexError"

C20_Witness ==
  /\ last.op = "reverse_using_pop"
  /\ Len(last.pre) = MaxLen
  /\ last.pre[1] # last.pre[MaxLen]
  /\ last.ret = Reverse(last.pre)

(***************************************************************************)
(* Clearing: list_ = LinkedList(iterable), pop and append calls, clear().  *)
(***************************************************************************)
\* list_.clear()
ClearAction == ListStep("clear", 0, 0, Clear(cells, head))

ClearNext ==
  \/ \E i \in Indexes : PopAt(i)
  \/ \E x \in Values : AppendAction(x)
  \/ ClearAction

SpecClear == Init /\ [][ClearNext]_vars

\* C21: clear() on a LinkedList in any state returns without an exception
\* and leaves the list empty: length 0, nothing to iterate, no head node.
C21_ClearEmpties ==
  last.op = "clear"
    => /\ last.err = "ok"
       /\ Length(cells, head) = 0
       /\ Contents = <<>>
       /\ head = 0

C21_Witness ==
  /\ last.op = "clear"
  /\ Len(last.pre) = MaxLen
  /\ last.err = "ok"
  /\ head = 0

(***************************************************************************)
(* sort.py: bubble_sort and merge_sort on a built-in list.  An element is  *)
(* [value, uid] as the _IntWithId of the tests: < compares the values, the *)
(* uid tells equal values apart.                                           *)
(***************************************************************************)
\* longest list sorted
MaxSortLen == 5
\* the values sorted are 1..MaxSortVal
MaxSortVal == 3

\* [_IntWithId(e) for e in li]: the uids count up along the list
Tagged(li) == [k \in 1..Len(li) |-> [value |-> li[k], uid |-> k]]

\* _IntWithId.__lt__
Less(a, b) == a.value < b.value

\* _should_swap_ascending with the fault of comparing with <= instead of <
ShouldSwapAscendingOrEqual(element_index_i, element_index_i_plus_1) ==
  ~Less(element_index_i, element_index_i_plus_1)

ShouldSwapAscending(element_index_i, element_index_i_plus_1) ==
  Less(element_index_i_plus_1, element_index_i)

ShouldSwapDescending(element_index_i, element_index_i_plus_1) ==
  Less(element_index_i, element_index_i_plus_1)

\* swap_criteria = _should_swap_ascending if not reverse else _should_swap_descending
SwapCriteria(reverse, a, b) ==
  IF ~reverse THEN ShouldSwapAscending(a, b) ELSE ShouldSwapDescending(a, b)

\* bubble_sort, the inner loop: for j in range(i), from j on (j counts from 0)
RECURSIVE BubblePass(_, _, _, _, _)
BubblePass(s, reverse, j, i, any_swaps) ==
  IF j >= i THEN [seq |-> s, any_swaps |-> any_swaps]
  ELSE IF SwapCriteria(reverse, s[j + 1], s[j + 2])
    THEN BubblePass([s EXCEPT ![j + 1] = s[j + 2], ![j + 2] = s[j + 1]],
                    reverse, j + 1, i, TRUE)
    ELSE BubblePass(s, reverse, j + 1, i, any_swaps)

\* the outer loop with the fault of leaving after the first pass
BubbleLoopOnePass(s, reverse, i) ==
  IF i <= 0 THEN s ELSE BubblePass(s, reverse, 0, i, FALSE).seq

\* bubble_sort, the outer loop: for i in range(last_index, 0, -1), from i on;
\* it is left after a pass without swaps
RECURSIVE BubbleLoop(_, _, _)
BubbleLoop(s, reverse, i) ==
  IF i <= 0 THEN s
  ELSE LET pass == BubblePass(s, reverse, 0, i, FALSE)
       IN IF ~pass.any_swaps THEN pass.seq ELSE BubbleLoop(pass.seq, reverse, i - 1)

\* bubble_sort(seq, reverse=reverse): what it leaves in seq
BubbleSort(s, reverse) == BubbleLoop(s, reverse, Len(s) - 1)

\* _merge, the while loop and the two for loops after it; result is the list
\* of None (0) filled from the left, the indexes count from 0
RECURSIVE MergeLoop(_, _, _, _, _, _, _)
MergeLoop(left, right, reverse, i_left, i_right, i_result, result) ==
  IF i_left < Len(left) /\ i_right < Len(right)
    THEN IF ~SwapCriteria(reverse, left[i_left + 1], right[i_right + 1])
           THEN MergeLoop(left, right, reverse, i_left + 1, i_right, i_result + 1,
                          [result EXCEPT ![i_result + 1] = left[i_left + 1]])
           ELSE MergeLoop(left, right, reverse, i_left, i_right + 1, i_result + 1,
                          [result EXCEPT ![i_result + 1] = right[i_right + 1]])
  ELSE IF i_left < Len(left)
    THEN MergeLoop(left, right, reverse, i_left + 1, i_right, i_result + 1,
                   [result EXCEPT ![i_result + 1] = left[i_left + 1]])
  ELSE IF i_right < Len(right)
    THEN MergeLoop(left, right, reverse, i_left, i_right + 1, i_result + 1,
                   [result EXCEPT ![i_result + 1] = right[i_right + 1]])
  ELSE result

\* _merge
Merge(left, right, reverse) ==
  MergeLoop(left, right, reverse, 0, 0, 0, [k \in 1..(Len(left) + Len(right)) |-> 0])

\* _merge_sorted: what it returns (a list of two elements is reversed in
\* place and returned itself)
RECURSIVE MergeSorted(_, _)
MergeSorted(s, reverse) ==
  IF Len(s) <= 1 THEN s
  ELSE IF Len(s) = 2
    THEN IF SwapCriteria(reverse, s[1], s[2]) THEN Reverse(s) ELSE s
  ELSE LET last_left == (Len(s) - 1) \div 2
           left == SubSeq(s, 1, last_left + 1)
           right == SubSeq(s, last_left + 2, Len(s))
       IN Merge(MergeSorted(left, reverse), MergeSorted(right, reverse), reverse)

\* merge_sort with the fault of binding the result to the local name instead
\* of assigning it to seq[:]; only the in-place reversal of a list of two
\* elements reaches the caller's list
MergeSortRebind(s, reverse) ==
  IF Len(s) = 2 THEN MergeSorted(s, reverse) ELSE s

\* merge_sort(seq, reverse=reverse): what it leaves in seq; seq[:] = values
\* on a built-in list replaces the whole content by values
MergeSort(s, reverse) == MergeSorted(s, reverse)

\* sorted(to_sort, reverse=reverse) of the tests: the built-in sort is
\* stable in both modes, so an element's place is one more than the number
\* of elements ordered before it plus the equal elements left of it
PySorted(s, reverse) ==
  LET Before(a, b) == IF reverse THEN Less(b, a) ELSE Less(a, b)
      Same(a, b) == ~Less(a, b) /\ ~Less(b, a)
      Place(k) == 1 + Cardinality({j \in 1..Len(s) : Before(s[j], s[k])})
                    + Cardinality({j \in 1..(k - 1) : Same(s[j], s[k])})
  IN [p \in 1..Len(s) |-> s[CHOOSE k \in 1..Len(s) : Place(k) = p]]

(***************************************************************************)
(* Sorting: sorted_by_tested = to_sort[:], then sort calls on it.          *)
(***************************************************************************)
InitSort ==
  /\ \E li \in SeqsUpTo(1..MaxSortVal, MaxSortLen) : seq = Tagged(li)
  /\ slast = [op |-> "construct", reverse |-> FALSE, pre |-> <<>>, err |-> "ok"]
  /\ ListIdle
  /\ RefIdle
  /\ TreeIdle

SortStep(op, reverse, s) ==
  /\ seq' = s
  /\ slast' = [op |-> op, reverse |-> reverse, pre |-> seq, err |-> "ok"]
  /\ UNCHANGED listVars
  /\ UNCHANGED refVars
  /\ UNCHANGED treeVars

\* bubble_sort(sorted_by_tested, reverse=reverse)
BubbleSortAction(reverse) == SortStep("bubble_sort", reverse, BubbleSort(seq, reverse))

\* merge_sort(sorted_by_tested, reverse=reverse)
MergeSortAction(reverse) == SortStep("merge_sort", reverse, MergeSort(seq, reverse))

NextSort ==
  \/ \E reverse \in BOOLEAN : BubbleSortAction(reverse)
  \/ \E reverse \in BOOLEAN : MergeSortAction(reverse)

SpecSort == InitSort /\ [][NextSort]_vars

\* the values of a list of elements
Keys(s) == [k \in 1..Len(s) |-> s[k].value]
\* t holds the elements of s, each as often
SameElements(s, t) ==
  /\ Len(s) = Len(t)
  /\ \A k \in 1..Len(s) :
       Cardinality({j \in 1..Len(s) : s[j] = s[k]})
         = Cardinality({j \in 1..Len(t) : t[j] = s[k]})
\* no element is followed by one that the mode orders before it
Ordered(s, reverse) ==
  \A k \in 1..(Len(s) - 1) :
    IF reverse THEN ~Less(s[k], s[k + 1]) ELSE ~Less(s[k + 1], s[k])

\* C22: in both modes bubble_sort returns and leaves in the list the elements
\* it was given, each as often, in the order of the reference sort: the
\* values read as those of sorted(input, reverse=reverse).
C22_BubbleSortSorts ==
  slast.op = "bubble_sort"
    => /\ slast.err = "ok"
       /\ SameElements(slast.pre, seq)
       /\ Ordered(seq, slast.reverse)
       /\ Keys(seq) = Keys(PySorted(slast.pre, slast.reverse))

C22_Witness ==
  /\ slast.op = "bubble_sort"
  /\ slast.reverse
  /\ Len(slast.pre) = MaxSortLen
  /\ Keys(slast.pre)[1] < Keys(slast.pre)[MaxSortLen]
  /\ Keys(slast.pre)[2] > Keys(slast.pre)[3]
  /\ Keys(seq) = Keys(PySorted(slast.pre, TRUE))

\* C23: in both modes merge_sort leaves the list it was passed with the
\* length it had, holding the elements it was given, each as often, in the
\* order of the reference sort.
C23_MergeSortSortsInPlace ==
  slast.op = "merge_sort"
    => /\ slast.err = "ok"
       /\ Len(seq) = Len(slast.pre)
       /\ SameElements(slast.pre, seq)
       /\ Ordered(seq, slast.reverse)
       /\ Keys(seq) = Keys(PySorted(slast.pre, slast.reverse))

C23_Witness ==
  /\ slast.op = "merge_sort"
  /\ Len(slast.pre) = MaxSortLen
  /\ ~Ordered(slast.pre, slast.reverse)
  /\ Keys(slast.pre)[1] > Keys(slast.pre)[MaxSortLen]
  /\ Keys(seq) = Keys(PySorted(slast.pre, slast.reverse))
  /\ seq # slast.pre

\* C24: both sorts are stable in both modes: two elements of the input that
\* compare equal (neither is less than the other) stand in the output in
\* the order they had in the input.
C24_SortsStable ==
  slast.op \in {"bubble_sort", "merge_sort"}
    => \A i \in 1..Len(slast.pre), j \in 1..Len(slast.pre) :
         (i < j /\ ~Less(slast.pre[i], slast.pre[j]) /\ ~Less(slast.pre[j], slast.pre[i]))
           => \E p \in 1..Len(seq), q \in 1..Len(seq) :
                p < q /\ seq[p] = slast.pre[i] /\ seq[q] = slast.pre[j]

C24_Witness ==
  /\ slast.op = "merge_sort"
  /\ slast.reverse
  /\ Len(slast.pre) >= 4
  /\ ~Ordered(slast.pre, TRUE)
  /\ \E i \in 1..Len(slast.pre), j \in 1..Len(slast.pre) :
       /\ i < j
       /\ slast.pre[i].value = slast.pre[j].value
       /\ slast.pre[i].uid < slast.pre[j].uid
       /\ \E p \in 1..Len(seq), q \in 1..Len(seq) :
            p < q /\ p # i /\ seq[p] = slast.pre[i] /\ seq[q] = slast.pre[j]

(***************************************************************************)
(* Trees: tree = tree_type(None), then up to MaxCalls add and discard      *)
(* calls in any order; tlast counts the calls made.                        *)
(***************************************************************************)
\* most calls made on one tree
MaxCalls == 6

InitCalls ==
  /\ kind \in Kinds
  /\ root = 0
  /\ tnodes = EmptyTHeap
  /\ tlast = [op |-> "construct", val |-> 0, pre |-> <<>>, err |-> "ok", calls |-> 0]
  /\ ListIdle
  /\ RefIdle
  /\ SortIdle

CallStep(op, value, r) ==
  /\ tlast.calls < MaxCalls
  /\ LET c == Collect(r.nodes, r.root)
     IN root' = c.root /\ tnodes' = c.nodes
  /\ kind' = kind
  /\ tlast' = [op |-> op, val |-> value, pre |-> TreeIter(tnodes, root), err |-> r.err,
               calls |-> tlast.calls + 1]
  /\ UNCHANGED listVars
  /\ UNCHANGED refVars
  /\ UNCHANGED sortVars

\* tree.add(v)
AddCall(v) ==
  /\ TreeLen(tnodes, root) < MaxSize
  /\ \E a \in TAddr : tnodes[a].value = 0
  /\ CallStep("add", v, TreeAdd(kind, tnodes, root, v))

\* tree.discard(v)
DiscardCall(v) == CallStep("discard", v, TreeDiscard(kind, tnodes, root, v))

NextCalls ==
  \/ \E v \in TValues : AddCall(v)
  \/ \E v \in TValues : DiscardCall(v)

SpecCalls == InitCalls /\ [][NextCalls]_vars

WideValues == 1..(MaxTVal + 1)

InitDiscardOne ==
  /\ kind \in Kinds
  /\ \E values \in SeqsUpTo(WideValues, MaxSize) :
       LET c == TreeConstruct(kind, EmptyTHeap, 0, values)
       IN /\ root = Collect(c.nodes, c.root).root
          /\ tnodes = Collect(c.nodes, c.root).nodes
  /\ tlast = TCall("construct", 0, <<>>, "ok")
  /\ ListIdle
  /\ RefIdle
  /\ SortIdle

NextDiscardOne ==
  /\ tlast.op = "construct"
  /\ \E v \in WideValues : Discard(v)

SpecDiscardOne == InitDiscardOne /\ [][NextDiscardOne]_vars

\* the values of the subtree of node n, following the child links
RECURSIVE ValuesBelow(_, _, _)
ValuesBelow(tn, n, fuel) ==
  IF n = 0 \/ fuel = 0 THEN {}
  ELSE {tn[n].value} \cup ValuesBelow(tn, tn[n].left, fuel - 1)
         \cup ValuesBelow(tn, tn[n].right, fuel - 1)

\* the nodes of the tree: those reached from the root by child links
TreeNodes == IF root = 0 THEN {} ELSE {n \in TAddr : \E k \in 1..Len(TraverseBfs(tnodes, root)) : TraverseBfs(tnodes, root)[k] = n}

\* C26: in every state of a BstReferenceTree reached by add and discard
\* calls, every value in the left subtree of a node is less than the node's
\* value and no value in its right subtree is less than it.
C26_SearchOrderKept ==
  IsSearchTree
    => \A n \in TreeNodes :
         /\ \A w \in ValuesBelow(tnodes, tnodes[n].left, NumTNodes) : w < tnodes[n].value
         /\ \A w \in ValuesBelow(tnodes, tnodes[n].right, NumTNodes) : ~(w < tnodes[n].value)

\* C27: a discard(v) on a BstReferenceTree that returns normally leaves the
\* values stored before it less one occurrence of v: no other value is lost
\* or stored once more.
C27_DiscardTakesOneValue ==
  (IsSearchTree /\ tlast.op = "discard" /\ tlast.err = "ok")
    => \A w \in WideValues :
         Count(TContents, w) = Count(tlast.pre, w) - (IF w = tlast.val THEN 1 ELSE 0)

\* C28: in every state of a tree of either class reached by add and discard
\* calls the root has no parent (it is a root, at level 0), and the parent of
\* every other node of the tree is the one node of the tree that has it as
\* left or right child.
C28_LinksConsistent ==
  /\ root # 0
       => /\ tnodes[root].parent = 0
          /\ IsRoot(tnodes, root)
          /\ GetLevel(tnodes, root) = 0
  /\ \A b \in TreeNodes \ {root} :
       /\ tnodes[b].parent \in TreeNodes
       /\ \A a \in TreeNodes :
            (tnodes[a].left = b \/ tnodes[a].right = b) <=> a = tnodes[b].parent

(***************************************************************************)
(* Reference trees: tree = BinaryReferenceTree(None), then add and discard *)
(* calls in any order.                                                     *)
(***************************************************************************)
InitRefTree == InitTree /\ kind = "BinaryReferenceTree"
SpecRefTree == InitRefTree /\ [][NextTree]_vars

\* where the nodes below n stand: the pairs <<way down from n, node>>, a way
\* being the sequence of its steps, 1 to the left child and 2 to the right
RECURSIVE NodeLayout(_, _, _, _)
NodeLayout(tn, n, way, fuel) ==
  IF n = 0 \/ fuel = 0 THEN {}
  ELSE {<<way, n>>} \cup NodeLayout(tn, tn[n].left, Append(way, 1), fuel - 1)
         \cup NodeLayout(tn, tn[n].right, Append(way, 2), fuel - 1)

\* the pairs <<way down from the root, value stored there>>
ValueLayout(tn, r) == {<<e[1], tn[e[2]].value>> : e \in NodeLayout(tn, r, <<>>, NumTNodes)}
WayTo(tn, r, n) == (CHOOSE e \in NodeLayout(tn, r, <<>>, NumTNodes) : e[2] = n)[1]

\* C29: a discard(v) on a BinaryReferenceTree that returns normally takes
\* the first node in BFS order holding v: a leaf is detached; otherwise the
\* last node in BFS order gives its value to that node and is detached.  All
\* other nodes stay where they were with their values, the values stored
\* are those before less one v, and the length is one less.
C29_RefDiscardTakesOne ==
  [][(kind = "BinaryReferenceTree" /\ tlast'.op = "discard" /\ tlast'.err = "ok")
       => LET v == tlast'.val
              ns == TraverseBfs(tnodes, root)
              k == CHOOSE k \in 1..Len(ns) :
                     tnodes[ns[k]].value = v /\ \A j \in 1..(k - 1) : tnodes[ns[j]].value # v
              node == ns[k]
              donor == ns[Len(ns)]
              layout == NodeLayout(tnodes, root, <<>>, NumTNodes)
              before == {<<e[1], tnodes[e[2]].value>> : e \in layout}
              after == ValueLayout(tnodes', root')
              way_node == (CHOOSE e \in layout : e[2] = node)[1]
              way_donor == (CHOOSE e \in layout : e[2] = donor)[1]
              values_after == TreeIter(tnodes', root')
          IN /\ Count(TContents, v) >= 1
             /\ IF IsLeaf(tnodes, node)
                  THEN after = before \ {<<way_node, v>>}
                  ELSE after = (before \ {<<way_node, v>>,
                                         <<way_donor, tnodes[donor].value>>})
                                 \cup {<<way_node, tnodes[donor].value>>}
             /\ \A w \in TValues :
                  Count(values_after, w) = Count(TContents, w) - (IF w = v THEN 1 ELSE 0)
             /\ Len(values_after) = Len(TContents) - 1]_vars

C29_Witness ==
  /\ kind = "BinaryReferenceTree"
  /\ tlast.op = "discard"
  /\ tlast.err = "ok"
  /\ Len(tlast.pre) = MaxSize
  /\ tlast.pre[1] = tlast.val
  /\ tlast.pre[MaxSize] # tlast.val
  /\ TContents = <<tlast.pre[MaxSize]>> \o SubSeq(tlast.pre, 2, MaxSize - 1)

\* C30: in every state of a BstReferenceTree reached by add and discard
\* calls, contains(v) is true exactly when iterating the tree (BFS from the
\* root) meets a value equal to v.
C30_LookupAgreesWithScan ==
  IsSearchTree
    => \A v \in WideValues : Contains(v) <=> (Count(TContents, v) >= 1)

C30_Witness ==
  /\ IsSearchTree
  /\ root # 0
  /\ tnodes[root].left # 0
  /\ tnodes[root].right # 0
  /\ tnodes[tnodes[root].left].value = tnodes[root].value
  /\ Contains(tnodes[tnodes[root].right].value)
  /\ \E v \in TValues : ~Contains(v) /\ Count(TContents, v) = 0

\* the place of a way in level order: 1 for the root, 2i and 2i + 1 for the
\* left and right child of place i
RECURSIVE LevelOrderPlace(_)
LevelOrderPlace(way) ==
  IF way = <<>> THEN 1
  ELSE 2 * LevelOrderPlace(SubSeq(way, 1, Len(way) - 1)) + (way[Len(way)] - 1)

\* the nodes fill the places 1..n without a gap, as after add calls alone
FilledInOrder(tn, r) ==
  LET nl == NodeLayout(tn, r, <<>>, NumTNodes)
  IN {LevelOrderPlace(e[1]) : e \in nl} = 1..Cardinality(nl)

\* C31: add(v) on a non-empty BinaryReferenceTree hangs the new node under
\* the first node in BFS order with an open child slot, left if left is
\* open and right otherwise, with that node as its parent; every other node
\* stays where it was.  A tree built by add calls alone (its nodes fill the
\* level-order places without a gap) stays so and therefore iterates its
\* values in the order they were added.
C31_AddFillsFirstOpenSlot ==
  [][(kind = "BinaryReferenceTree" /\ tlast'.op = "add" /\ root # 0)
       => LET ns == TraverseBfs(tnodes, root)
              k == CHOOSE k \in 1..Len(ns) :
                     /\ (tnodes[ns[k]].left = 0 \/ tnodes[ns[k]].right = 0)
                     /\ \A j \in 1..(k - 1) :
                          tnodes[ns[j]].left # 0 /\ tnodes[ns[j]].right # 0
              side == IF tnodes[ns[k]].left = 0 THEN 1 ELSE 2
              before == NodeLayout(tnodes, root, <<>>, NumTNodes)
              after == NodeLayout(tnodes', root', <<>>, NumTNodes)
              way == Append((CHOOSE e \in before : e[2] = ns[k])[1], side)
              at == {e \in after : e[1] = way}
              filled == {LevelOrderPlace(e[1]) : e \in before} = 1..Cardinality(before)
          IN /\ tlast'.err = "ok"
             /\ {<<e[1], tnodes'[e[2]].value>> : e \in after}
                  = {<<e[1], tnodes[e[2]].value>> : e \in before} \cup {<<way, tlast'.val>>}
             /\ Cardinality(after) = Cardinality(before) + 1
             /\ \A e \in at :
                  <<SubSeq(way, 1, Len(way) - 1), tnodes'[e[2]].parent>> \in after
             /\ filled
                  => /\ {LevelOrderPlace(e[1]) : e \in after} = 1..Cardinality(after)
                     /\ TreeIter(tnodes', root') = Append(TContents, tlast'.val)]_vars

C31_Witness ==
  /\ kind = "BinaryReferenceTree"
  /\ tlast.op = "add"
  /\ Len(tlast.pre) = 2
  /\ tnodes[root].left # 0
  /\ tnodes[root].right # 0
  /\ tnodes[tnodes[root].left].value = tlast.val
  /\ tnodes[tnodes[root].right].value = tlast.pre[2]
  /\ TContents # Append(tlast.pre, tlast.val)

\* C32: insert(index, value) with 0 <= index < length raises nothing, puts
\* value at position index, moves the elements from position index on one
\* place later in their order and makes the list one longer, as insert of
\* the built-in list does.
C32_InsertInRangeShifts ==
  (last.op = "insert" /\ 0 <= last.idx /\ last.idx < Len(last.pre))
    => /\ last.err = "ok"
       /\ Len(Contents) = Len(last.pre) + 1
       /\ Contents[last.idx + 1] = last.val
       /\ SubSeq(Contents, 1, last.idx) = SubSeq(last.pre, 1, last.idx)
       /\ SubSeq(Contents, last.idx + 2, Len(Contents))
            = SubSeq(last.pre, last.idx + 1, Len(last.pre))
       /\ Contents = PyInsert(last.pre, last.idx, last.val).seq

C32_Witness ==
  /\ last.op = "insert"
  /\ last.idx = 1
  /\ Len(last.pre) = MaxLen - 1
  /\ last.val # last.pre[2]
  /\ last.pre[1] # last.pre[2]
  /\ Contents = <<last.pre[1], last.val, last.pre[2]>>

\* builtin_list[slice_] = values of the tests: with step 1 the stretch from
\* start to stop is replaced by the values, however many; with another step
\* the values go to the addressed positions and their number has to fit
PySetSlice(s, slice_, values) ==
  LET i == SliceIndices(slice_, Len(s))
      idx == PySliceIndexes(Len(s), slice_)
  IN IF i.step = 1
       THEN PyRes("ok", SubSeq(s, 1, i.start) \o values
                          \o SubSeq(s, Max(i.start, i.stop) + 1, Len(s)), <<>>)
     ELSE IF Len(values) # Len(idx) THEN PyRes("ValueError", s, <<>>)
     ELSE PyRes("ok", Overwritten(s, idx, values), <<>>)

\* C33: list_[start:stop:step] = values puts the k-th value at the k-th
\* position the slice addresses, in the order of the slice; every other
\* position keeps its value and the length stays, also with more values than
\* positions.  With as many values as positions it raises nothing and leaves
\* what the built-in list's slice assignment leaves.
C33_SetSliceWritesInOrder ==
  last.op = "set_slice"
    => LET idx == PySliceIndexes(Len(last.pre), last.sl)
           m == Min(Len(idx), Len(last.vals))
       IN /\ Len(Contents) = Len(last.pre)
          /\ \A k \in 1..m : Contents[idx[k] + 1] = last.vals[k]
          /\ \A p \in 1..Len(last.pre) :
               (\A k \in 1..m : idx[k] + 1 # p) => Contents[p] = last.pre[p]
          /\ Len(last.vals) = Len(idx)
               => /\ last.err = "ok"
                  /\ PySetSlice(last.pre, last.sl, last.vals).err = "ok"
                  /\ Contents = PySetSlice(last.pre, last.sl, last.vals).seq

C33_Witness ==
  /\ last.op = "set_slice"
  /\ Len(last.pre) = MaxLen
  /\ last.sl.step = <<0 - MaxStep>>
  /\ PySliceIndexes(MaxLen, last.sl) = <<MaxLen - 1, MaxLen - 1 - MaxStep>>
  /\ Len(last.vals) = MaxLen
  /\ last.vals[1] # last.vals[2]
  /\ last.vals[1] # last.pre[MaxLen]
  /\ last.vals[2] # last.pre[MaxLen - MaxStep]
  /\ Contents[MaxLen] = last.vals[1]
  /\ Contents[MaxLen - MaxStep] = last.vals[2]


(***************************************************************************)
(* A slice result beside its source: list_ = LinkedList(iterable),         *)
(* result = list_[start:stop:step], then one set, insert, del or pop on    *)
(* list_ or on result.  Both lists stay alive.                             *)
(***************************************************************************)
\* result = list_[start:stop:step]
TakeSlice(slice_) ==
  LET r == GetBySlice(cells, head, slice_)
      n == Compact(r.cells, head, r.head)
  IN /\ last.op = "construct"
     /\ head' = n.head
     /\ cells' = n.cells
     /\ other' = n.other
     /\ last' = Call("get_slice", 0, 0, NoSlice, <<>>, Iter(cells, head), r.err,
                     Iter(r.cells, r.head))
     /\ UNCHANGED refVars
     /\ UNCHANGED treeVars
     /\ UNCHANGED sortVars

\* a call on list_ while result is alive
OnSource(op, idx, val, r) ==
  LET n == Compact(r.cells, r.head, other)
  IN /\ last.op = "get_slice"
     /\ Length(r.cells, r.head) <= MaxLen
     /\ head' = n.head
     /\ cells' = n.cells
     /\ other' = n.other
     /\ last' = Call(op, idx, val, NoSlice, <<>>, Iter(cells, head), r.err, r.ret)
     /\ UNCHANGED refVars
     /\ UNCHANGED treeVars
     /\ UNCHANGED sortVars

\* a call on result while list_ is alive
OnResult(op, idx, val, r) ==
  LET n == Compact(r.cells, head, r.head)
  IN /\ last.op = "get_slice"
     /\ Length(r.cells, r.head) <= MaxLen
     /\ head' = n.head
     /\ cells' = n.cells
     /\ other' = n.other
     /\ last' = Call(op, idx, val, NoSlice, <<>>, Iter(cells, other), r.err, r.ret)
     /\ UNCHANGED refVars
     /\ UNCHANGED treeVars
     /\ UNCHANGED sortVars

SourceOps == {"set", "insert", "del", "pop"}
ResultOps == {"result.set", "result.insert", "result.del", "result.pop"}

NextShare ==
  \/ \E slice_ \in Slices : TakeSlice(slice_)
  \/ \E i \in Indexes, x \in Values :
       OnSource("set", i, x, SetByIndex(cells, head, i, x))
  \/ \E i \in Indexes, x \in Values :
       OnSource("insert", i, x, Insert(cells, head, i, x))
  \/ \E i \in Indexes : OnSource("del", i, 0, DelByIndex(cells, head, i))
  \/ \E i \in Indexes : OnSource("pop", i, 0, Pop(cells, head, i))
  \/ \E i \in Indexes, x \in Values :
       OnResult("result.set", i, x, SetByIndex(cells, other, i, x))
  \/ \E i \in Indexes, x \in Values :
       OnResult("result.insert", i, x, Insert(cells, other, i, x))
  \/ \E i \in Indexes : OnResult("result.del", i, 0, DelByIndex(cells, other, i))
  \/ \E i \in Indexes : OnResult("result.pop", i, 0, Pop(cells, other, i))

SpecShare == Init /\ [][NextShare]_vars

ChainNodes(cs, h) == LET ns == IterNodes(cs, h) IN {ns[k] : k \in 1..Len(ns)}
Apart(cs, h, o) == ChainNodes(cs, h) \cap ChainNodes(cs, o) = {}

\* C34: the list list_[start:stop:step] returns is made of nodes of its own:
\* no node is reachable from both list_ and the result, neither right after
\* the slicing nor after a later set, insert, del or pop on one of the two,
\* and such a call on one of them leaves the contents of the other as they
\* were.
C34_SliceSharesNoNode ==
  [][/\ last'.op \in {"get_slice"} \cup SourceOps \cup ResultOps
          => Apart(cells', head', other')
     /\ last'.op \in SourceOps => Iter(cells', other') = Iter(cells, other)
     /\ last'.op \in ResultOps => Iter(cells', head') = Iter(cells, head)]_vars

C34_Witness ==
  /\ last.op = "result.insert"
  /\ last.err = "ok"
  /\ last.idx = 1
  /\ Len(last.pre) = MaxLen - 1
  /\ Contents = last.pre
  /\ Iter(cells, other) = <<last.pre[1], last.val>> \o SubSeq(last.pre, 2, Len(last.pre))
  /\ last.val # last.pre[2]
  /\ Apart(cells, head, other)


(***************************************************************************)
(* Every call that changes a LinkedList, in any order: list_ =             *)
(* LinkedList(iterable), then set, del, pop, insert, append, extend and    *)
(* clear.                                                                  *)
(***************************************************************************)
ChainNext ==
  \/ \E i \in Indexes, x \in Values : Set(i, x)
  \/ \E i \in Indexes : Del(i)
  \/ \E i \in Indexes : PopAt(i)
  \/ PopDefault
  \/ \E i \in Indexes, x \in Values : InsertAction(i, x)
  \/ \E x \in Values : AppendAction(x)
  \/ \E values \in SeqsUpTo(Values, MaxLen) : ExtendAction(values)
  \/ ClearAction

SpecChain == Init /\ [][ChainNext]_vars

\* the nodes met from current on by following next, fuel of them at most
RECURSIVE Walk(_, _, _)
Walk(cs, current, fuel) ==
  IF current = 0 \/ fuel = 0 THEN <<>>
  ELSE <<current>> \o Walk(cs, cs[current].next, fuel - 1)

\* C35: after construction and after every set, del, pop, insert, append,
\* extend and clear, following next from the head ends at None without
\* meeting a node twice, and len() is the number of nodes met.
C35_ChainWellFormed ==
  LET w == Walk(cells, head, NumCells + 1)
  IN /\ Len(w) <= NumCells
     /\ \A i, j \in 1..Len(w) : i # j => w[i] # w[j]
     /\ Length(cells, head) = Cardinality({w[k] : k \in 1..Len(w)})

C35_Witness ==
  /\ last.op = "insert"
  /\ last.err = "ok"
  /\ last.idx = MaxLen - 1
  /\ Len(last.pre) = MaxLen - 1
  /\ Len(Walk(cells, head, NumCells + 1)) = MaxLen
  /\ Length(cells, head) = MaxLen
  /\ cells[Walk(cells, head, NumCells + 1)[MaxLen]].next = 0


(***************************************************************************)
(* Nodes handled directly: BinaryTreeNode(value, left, right) and the      *)
(* setters p.left = c and p.right = c, with any node made so far (or None) *)
(* as the child, whatever links it already has.                            *)
(***************************************************************************)
MaxMade == 3
MaxAssign == 4

\* BinaryTreeNode.__init__
NodeInit(tn, a, value, left, right) ==
  LET t0 == [tn EXCEPT ![a] = [value |-> value, left |-> 0, right |-> 0, parent |-> 0]]
      t1 == [t0 EXCEPT ![a].left = left]
      t2 == IF left # 0 THEN [t1 EXCEPT ![left].parent = a] ELSE t1
      t3 == [t2 EXCEPT ![a].right = right]
  IN IF right # 0 THEN [t3 EXCEPT ![right].parent = a] ELSE t3

Made(tn) == {a \in TAddr : tn[a].value # 0}

ACall(op, p, left, right, calls) ==
  [op |-> op, val |-> p, left |-> left, right |-> right, calls |-> calls]

InitAssign ==
  /\ kind = "BinaryTreeNode"
  /\ root = 0
  /\ tnodes = EmptyTHeap
  /\ tlast = ACall("none", 0, 0, 0, 0)
  /\ ListIdle
  /\ RefIdle
  /\ SortIdle

AssignStep(op, p, left, right, tn) ==
  /\ tlast.calls < MaxAssign
  /\ tnodes' = tn
  /\ tlast' = ACall(op, p, left, right, tlast.calls + 1)
  /\ UNCHANGED <<root, kind>>
  /\ UNCHANGED listVars
  /\ UNCHANGED refVars
  /\ UNCHANGED sortVars

\* p = BinaryTreeNode(k, left, right)
MakeNode(left, right) ==
  LET p == NewTNode(tnodes)
  IN /\ Cardinality(Made(tnodes)) < MaxMade
     /\ left \in Made(tnodes) \cup {0}
     /\ right \in Made(tnodes) \cup {0}
     /\ AssignStep("construct", p, left, right,
                   NodeInit(tnodes, p, Cardinality(Made(tnodes)) + 1, left, right))

\* p.left = c
AssignLeft(p, c) ==
  /\ p \in Made(tnodes)
  /\ c \in Made(tnodes) \cup {0}
  /\ AssignStep("set_left", p, c, 0, SetLeft(tnodes, p, c))

\* p.right = c
AssignRight(p, c) ==
  /\ p \in Made(tnodes)
  /\ c \in Made(tnodes) \cup {0}
  /\ AssignStep("set_right", p, 0, c, SetRight(tnodes, p, c))

NextAssign ==
  \/ \E left, right \in TAddr \cup {0} : MakeNode(left, right)
  \/ \E p \in TAddr, c \in TAddr \cup {0} : AssignLeft(p, c)
  \/ \E p \in TAddr, c \in TAddr \cup {0} : AssignRight(p, c)

SpecAssign == InitAssign /\ [][NextAssign]_vars

\* the links of node n that are not among those named
KeepsLinks(n, changed) ==
  /\ tnodes'[n].value = tnodes[n].value
  /\ "left" \in changed \/ tnodes'[n].left = tnodes[n].left
  /\ "right" \in changed \/ tnodes'[n].right = tnodes[n].right
  /\ "parent" \in changed \/ tnodes'[n].parent = tnodes[n].parent

\* C36: BinaryTreeNode(value, left, right), p.left = c and p.right = c with a
\* node c make the named child link of p refer to c and the parent link of c
\* refer to p; the other child link of p and every link of every other node
\* stay as they were (the parent link of a child p had there before, and the
\* child links of a parent c had before, included).
C36_AssignChildLinksBoth ==
  [][LET p == tlast'.val
         l == tlast'.left
         r == tlast'.right
     IN /\ tlast'.op = "set_left" /\ l # 0
             => /\ tnodes'[p].left = l
                /\ tnodes'[l].parent = p
                /\ \A n \in TAddr :
                     KeepsLinks(n, (IF n = p THEN {"left"} ELSE {})
                                     \cup (IF n = l THEN {"parent"} ELSE {}))
        /\ tlast'.op = "set_right" /\ r # 0
             => /\ tnodes'[p].right = r
                /\ tnodes'[r].parent = p
                /\ \A n \in TAddr :
                     KeepsLinks(n, (IF n = p THEN {"right"} ELSE {})
                                     \cup (IF n = r THEN {"parent"} ELSE {}))
        /\ tlast'.op = "construct"
             => /\ tnodes[p] = NoTNode
                /\ tnodes'[p].left = l
                /\ tnodes'[p].right = r
                /\ tnodes'[p].parent = 0
                /\ l # 0 => tnodes'[l].parent = p
                /\ r # 0 => tnodes'[r].parent = p
                /\ \A n \in TAddr \ {p} :
                     KeepsLinks(n, IF n \in {l, r} THEN {"parent"} ELSE {})]_vars

\* p.left = c took the place of a left child that still names p as its
\* parent, and c is still a child of the parent it had before
C36_Witness ==
  /\ tlast.op = "set_left"
  /\ tlast.left # 0
  /\ tnodes[tlast.val].left = tlast.left
  /\ tnodes[tlast.left].parent = tlast.val
  /\ \E o \in Made(tnodes) \ {tlast.val, tlast.left} :
       /\ tnodes[o].parent = tlast.val
       /\ tnodes[tlast.val].right # o
       /\ tnodes[o].left = tlast.left


(***************************************************************************)
(* _normalize_index on its own: an index and a length are chosen, then the *)
(* function is applied to them.                                            *)
(***************************************************************************)
MaxNormLen == 6
NormIndexes == (0 - (MaxNormLen + 2))..(MaxNormLen + 2)

InitNormalize ==
  /\ \E index \in NormIndexes, length \in 0..MaxNormLen :
       /\ last = Call("none", index, length, NoSlice, <<>>, <<>>, "ok", <<>>)
  /\ head = 0
  /\ cells = EmptyHeap
  /\ other = 0
  /\ RefIdle
  /\ TreeIdle
  /\ SortIdle

\* _normalize_index(index, length)
NormalizeAction ==
  LET r == NormalizeIndex(last.idx, last.val)
  IN /\ last.op = "none"
     /\ last' = [last EXCEPT !.op = "normalize_index", !.err = r.err,
                             !.ret = IF r.err = "ok" THEN <<r.val>> ELSE <<>>]
     /\ UNCHANGED <<head, cells, other>>
     /\ UNCHANGED refVars
     /\ UNCHANGED treeVars
     /\ UNCHANGED sortVars

SpecNormalize == InitNormalize /\ [][NormalizeAction]_vars

\* C37: _normalize_index(i, n) returns i for 0 <= i < n and n + i for
\* -n <= i <= -1; for every other i, i = n and every i with n = 0 among
\* them, it raises IndexError and returns nothing.
C37_NormalizeIndexCases ==
  last.op = "normalize_index"
    => LET i == last.idx
           n == last.val
       IN /\ (0 <= i /\ i < n) => (last.err = "ok" /\ last.ret = <<i>>)
          /\ (0 - n <= i /\ i <= 0 - 1) => (last.err = "ok" /\ last.ret = <<n + i>>)
          /\ (i >= n \/ i < 0 - n) => (last.err = "IndexError" /\ last.ret = <<>>)
          /\ n = 0 => last.err = "IndexError"

C37_Witness ==
  /\ last.op = "normalize_index"
  /\ last.val = MaxNormLen
  /\ last.idx = 0 - MaxNormLen
  /\ last.err = "ok"
  /\ last.ret = <<0>>


(***************************************************************************)
(* list_.extend(list_): the iterable is the list's own generator, which    *)
(* reads current.next only when the next element is asked for, after the   *)
(* loop body has hung a new node on the last one.  The call is followed    *)
(* one element at a time: other is the node the generator yielded last     *)
(* (None before the first), last.idx the number of elements taken so far.  *)
(* The heap holds NumCells nodes, so the loop is followed while a cell is  *)
(* free.                                                                   *)
(***************************************************************************)
InLoop == last.op = "extend_self.loop"

\* list_.extend(values) with a separate iterable, between calls
ExtendOther(values) == ~InLoop /\ ExtendAction(values)

\* list_.extend(list_) up to the for loop: iter(iterable) starts nothing; an
\* empty list asks for the first element, gets StopIteration and returns
ExtendSelfCall ==
  /\ ~InLoop
  /\ cells' = cells
  /\ head' = head
  /\ other' = 0
  /\ last' = Call(IF head = 0 THEN "extend_self" ELSE "extend_self.loop",
                  0, 0, NoSlice, <<>>, Iter(cells, head), "ok", <<>>)
  /\ UNCHANGED refVars
  /\ UNCHANGED treeVars
  /\ UNCHANGED sortVars

\* one round of for e in iter_: the generator moves to the head (first round)
\* or to current.next; None ends the loop and the call, otherwise a node with
\* the element is hung on the last node, which becomes the last
ExtendSelfLoop ==
  LET current == IF last.idx = 0 THEN head ELSE cells[other].next
      last_ == GetLastNode(cells, head)
      n == NewNode(cells)
      cs == [cells EXCEPT ![n] = [value |-> cells[current].value, next |-> 0],
                          ![last_].next = n]
      c == Compact(cs, head, current)
  IN /\ InLoop
     /\ Length(cells, head) < NumCells
     /\ IF current = 0
          THEN /\ last' = [last EXCEPT !.op = "extend_self"]
               /\ other' = 0
               /\ UNCHANGED <<head, cells>>
          ELSE /\ head' = c.head
               /\ cells' = c.cells
               /\ other' = c.other
               /\ last' = [last EXCEPT !.idx = last.idx + 1]
     /\ UNCHANGED refVars
     /\ UNCHANGED treeVars
     /\ UNCHANGED sortVars

NextExtendSelf ==
  \/ \E values \in SeqsUpTo(Values, MaxLen) : ExtendOther(values)
  \/ ExtendSelfCall
  \/ ExtendSelfLoop

SpecExtendSelf == Init /\ [][NextExtendSelf]_vars

\* C38: extend(values) returns, with the length grown by the number of
\* elements values held when the call started; list_.extend(list_) on n
\* elements never holds more than 2n and returns with 2n.
C38_ExtendAddsWhatValuesHeld ==
  /\ last.op = "extend" => Len(Contents) = Len(last.pre) + Len(last.vals)
  /\ last.op = "extend_self" => Len(Contents) = 2 * Len(last.pre)
  /\ InLoop => Len(Contents) <= 2 * Len(last.pre)


\* C39: discard never raises the ValueError of _delete_non_leaf.  When the
\* first node holding the value has a child, nodes follow it in the BFS scan
\* (those at later level-order places), the last of them is the node at the
\* highest place, which is a leaf and not the found node, and the call
\* returns normally with exactly that one node gone.
C39_NonLeafBranchHasLeaf ==
  [][(kind = "BinaryReferenceTree" /\ tlast'.op = "discard")
       => LET nl == NodeLayout(tnodes, root, <<>>, NumTNodes)
              ns == {e[2] : e \in nl}
              way == [n \in ns |-> (CHOOSE e \in nl : e[2] = n)[1]]
              place == [n \in ns |-> LevelOrderPlace(way[n])]
              nodes == TraverseBfs(tnodes, root)
          IN /\ tlast'.err # "ValueError"
             /\ \A found \in ns :
                  (/\ tnodes[found].value = tlast'.val
                   /\ \A m \in ns :
                        tnodes[m].value = tlast'.val => place[found] <= place[m]
                   /\ ~IsLeaf(tnodes, found))
                    => LET k == CHOOSE j \in 1..Len(nodes) : nodes[j] = found
                           remaining == SubSeq(nodes, k + 1, Len(nodes))
                           bottom == remaining[Len(remaining)]
                       IN /\ remaining # <<>>
                          /\ {remaining[j] : j \in 1..Len(remaining)}
                               = {m \in ns : place[m] > place[found]}
                          /\ \A m \in ns : place[m] <= place[bottom]
                          /\ bottom # found
                          /\ IsLeaf(tnodes, bottom)
                          /\ tlast'.err = "ok"
                          /\ TreeLen(tnodes', root') = TreeLen(tnodes, root) - 1
                          /\ {e[1] : e \in NodeLayout(tnodes', root', <<>>, NumTNodes)}
                               = {e[1] : e \in nl} \ {way[bottom]}]_vars

C39_Witness ==
  /\ kind = "BinaryReferenceTree"
  /\ tlast.op = "discard"
  /\ tlast.err = "ok"
  /\ Len(tlast.pre) = MaxSize
  /\ tlast.pre[1] # tlast.val
  /\ tlast.pre[2] = tlast.val
  /\ tlast.pre[MaxSize] # tlast.val
  /\ TContents = <<tlast.pre[1], tlast.pre[MaxSize]>> \o SubSeq(tlast.pre, 3, MaxSize - 1)
  /\ tnodes[tnodes[root].left].left = 0

====
